---- MODULE Spec2Model ----
(***************************************************************************)
(* SafeGuardAI: the security/rate gate (safety/security.py), the chunker   *)
(* and vector index (safety/ai_utils/rag_system.py) and the answer         *)
(* post-processor (safety/ai_utils/agents.py).                             *)
(*                                                                         *)
(* Text is a sequence of characters (one-character strings); a character   *)
(* the notation cannot write is a token such as ESC.                       *)
(***************************************************************************)
EXTENDS Integers, Sequences, FiniteSets, TLC

VARIABLES
    store,        \* security._rate_limit_store: phone -> list of timestamps
    now,          \* the value time.time() returns
    event,        \* the last call made and what it returned
    acceptedLog,  \* history: per phone, the clock of every accepted call
    lastRejected, \* history: per phone, the clock of the latest rejected call
    otherCalls,   \* history: calls made so far by the background senders
    started,      \* history: calls of check_rate_limit the tasks have begun
    tpc,          \* per background task: where it is in check_rate_limit
    tphone,       \* per background task: phone_number
    tnow,         \* per background task: now
    tsize,        \* per background task: the table's size when its iteration began
    texpired,     \* per background task: expired_keys not yet deleted
    tts,          \* per background task: timestamps
    msgIn,        \* sanitise_message: message
    msgOut,       \* sanitise_message: what it returned, once it has
    CHUNK_SIZE,   \* SafetyRAG.CHUNK_SIZE
    CHUNK_OVERLAP,\* SafetyRAG.CHUNK_OVERLAP
    ctext,        \* chunk_text: text
    cwords,       \* chunk_text: words
    cstart,       \* chunk_text: start, counted from 1
    chunks,       \* chunk_text: chunks
    cspans,       \* history: per chunk, the first word taken and the word after the last
    cpc,          \* chunk_text: "loop" until it has returned, then "done"
    collection,   \* SafetyRAG.collection: the records of the vector store
    icall,        \* the last call of add_document and how it ended
    qpc,          \* process_safety_query: "called" until it has ended, then "done"
    qin,          \* process_safety_query: query and conversation_sources
    qenv,         \* what the searches, the language model and the image tool did
    qout,         \* what process_safety_query returned
    ppc,          \* the post-processing of an answer: the stage that comes next
    pin,          \* the post-processing of an answer: what it is given
    ptext,        \* the post-processing of an answer: the text so far
    hpc,          \* process_incoming_message: "called" until it has ended, then "done"
    hin,          \* process_incoming_message: the message and what it meets
    hdb,          \* the users, safety logs and conversations of the database
    hout,         \* what process_incoming_message returned
    rag_instance, \* rag_system._rag_instance: None or the instance it names
    built,        \* history: the SafetyRAG instances constructed so far
    gcalls,       \* history: calls of get_rag begun so far
    gpc,          \* per caller of get_rag: where it is in get_rag
    gnew,         \* per caller of get_rag: the instance it has constructed
    ggot          \* per caller of get_rag: what its last call returned

gateVars == <<store, now, event, acceptedLog, lastRejected, otherCalls>>

taskVars == <<started, tpc, tphone, tnow, tsize, texpired, tts>>

sanVars == <<msgIn, msgOut>>

indexVars == <<collection, icall>>

queryVars == <<qpc, qin, qenv, qout>>

chunkVars == <<CHUNK_SIZE, CHUNK_OVERLAP, ctext, cwords, cstart, chunks, cspans, cpc>>

postVars == <<ppc, pin, ptext>>

inboundVars == <<hpc, hin, hdb, hout>>

singletonVars == <<rag_instance, built, gcalls, gpc, gnew, ggot>>

vars == <<gateVars, taskVars, sanVars, chunkVars, indexVars, queryVars, postVars, inboundVars,
         singletonVars>>

\* what the calls of the gate, the tasks, sanitise_message and chunk_text leave alone
offGate == <<taskVars, sanVars, chunkVars, indexVars, queryVars, postVars, inboundVars, singletonVars>>

offTasks == <<sanVars, chunkVars, indexVars, queryVars, postVars, inboundVars, singletonVars>>

offSanitise == <<gateVars, taskVars, chunkVars, indexVars, queryVars, postVars, inboundVars, singletonVars>>

offChunk == <<gateVars, taskVars, sanVars, indexVars, queryVars, postVars, inboundVars, singletonVars>>

offIndex == <<gateVars, taskVars, sanVars, chunkVars, queryVars, postVars, inboundVars, singletonVars>>

offQuery == <<gateVars, taskVars, sanVars, chunkVars, indexVars, postVars, inboundVars, singletonVars>>

offPost == <<gateVars, taskVars, sanVars, chunkVars, indexVars, queryVars, inboundVars, singletonVars>>

offInbound == <<gateVars, taskVars, sanVars, chunkVars, indexVars, queryVars, postVars, singletonVars>>

offSingleton == <<gateVars, taskVars, sanVars, chunkVars, indexVars, queryVars, postVars, inboundVars>>

---------------------------------------------------------------------------
(* Characters and strings                                                  *)

Min(S) == CHOOSE x \in S : \A y \in S : x <= y

ESC == "<ESC>"

Uppers == <<"A","B","C","D","E","F","G","H","I","J","K","L","M",
            "N","O","P","Q","R","S","T","U","V","W","X","Y","Z">>

Lowers == <<"a","b","c","d","e","f","g","h","i","j","k","l","m",
            "n","o","p","q","r","s","t","u","v","w","x","y","z">>

UpperSet == {Uppers[i] : i \in 1..Len(Uppers)}

LowerOf == [c \in UpperSet |-> Lowers[CHOOSE i \in 1..Len(Uppers) : Uppers[i] = c]]

\* str.lower() on one character
LowerChar(c) == IF c \in UpperSet THEN LowerOf[c] ELSE c

\* str.lower()
Lower(s) == SubSeq([i \in 1..Len(s) |-> LowerChar(s[i])], 1, Len(s))

\* str.isspace() on one character: what str.strip() removes
IsSpace(c) == c \in {" ", "\t", "\n", "\r", "\f"}

\* the first i in from..to that passes Test, to + 1 if none does
First(from, to, Test(_)) ==
    IF to < from THEN to + 1
    ELSE CHOOSE i \in from..(to + 1) :
             /\ i = to + 1 \/ Test(i)
             /\ \A j \in from..(i - 1) : ~Test(j)

\* the last i in from..to that passes Test, from - 1 if none does
Last(from, to, Test(_)) ==
    IF to < from THEN from - 1
    ELSE CHOOSE i \in (from - 1)..to :
             /\ i = from - 1 \/ Test(i)
             /\ \A j \in (i + 1)..to : ~Test(j)

\* str.strip()
Strip(s) ==
    SubSeq(s, First(1, Len(s), LAMBDA i : ~IsSpace(s[i])),
              Last(1, Len(s), LAMBDA i : ~IsSpace(s[i])))

\* p occurs in s at position i, compared exactly
OccursAt(s, p, i) ==
    /\ i >= 1
    /\ i + Len(p) - 1 <= Len(s)
    /\ \A k \in 1..Len(p) : s[i + k - 1] = p[k]

\* the `in` operator on strings
Contains(s, p) == \E i \in 1..(Len(s) - Len(p) + 1) : OccursAt(s, p, i)

\* the words of s from position `from` on
RECURSIVE SplitFrom(_, _)
SplitFrom(s, from) ==
    IF {i \in from..Len(s) : ~IsSpace(s[i])} = {} THEN <<>>
    ELSE LET first == Min({i \in from..Len(s) : ~IsSpace(s[i])})
             stop  == Min({j \in first..Len(s) : j = Len(s) \/ IsSpace(s[j + 1])})
         IN  <<SubSeq(s, first, stop)>> \o SplitFrom(s, stop + 1)

\* str.split(): the maximal runs of characters that are not whitespace
Split(s) == SplitFrom(s, 1)

\* ' '.join(ws)
RECURSIVE Join(_)
Join(ws) ==
    IF ws = <<>> THEN <<>>
    ELSE IF Len(ws) = 1 THEN ws[1]
    ELSE ws[1] \o <<" ">> \o Join(Tail(ws))

Repeat(c, n) == SubSeq([i \in 1..n |-> c], 1, n)

---------------------------------------------------------------------------
(* safety/security.py                                                      *)

MAX_MESSAGE_LENGTH == 500

MAX_REQUESTS_PER_HOUR == 20

RATE_LIMIT_WINDOW == 3600

DANGEROUS_PATTERNS == <<
    <<"i","g","n","o","r","e"," ","p","r","e","v","i","o","u","s"," ","i","n","s","t","r","u","c","t","i","o","n","s">>,
    <<"i","g","n","o","r","e"," ","a","l","l"," ","i","n","s","t","r","u","c","t","i","o","n","s">>,
    <<"d","i","s","r","e","g","a","r","d"," ","y","o","u","r"," ","i","n","s","t","r","u","c","t","i","o","n","s">>,
    <<"y","o","u"," ","a","r","e"," ","n","o","w">>,
    <<"n","e","w"," ","i","n","s","t","r","u","c","t","i","o","n","s",":">>,
    <<"s","y","s","t","e","m"," ","p","r","o","m","p","t",":">>,
    <<"f","o","r","g","e","t"," ","e","v","e","r","y","t","h","i","n","g">> >>

\* the text check_message_length returns on failure (it quotes both numbers)
TooLongText(length) == [kind |-> "too_long", length |-> length, limit |-> MAX_MESSAGE_LENGTH]

\* the text check_rate_limit returns on failure (it quotes the cap)
RateLimitedText == [kind |-> "rate_limited", limit |-> MAX_REQUESTS_PER_HOUR]

check_message_length(message) ==
    IF Len(message) > MAX_MESSAGE_LENGTH
    THEN [passed |-> FALSE, reason |-> TooLongText(Len(message))]
    ELSE [passed |-> TRUE, reason |-> <<>>]

\* ord(char) >= 32 or char in '\n\t'
IsPrintable(c) == c \notin {"\r", "\f", ESC}

DropControl(s) ==
    LET Keep(c) == IsPrintable(c) IN SelectSeq(s, Keep)

\* the positions from `from` on where p matches s, low being s in lower case
MatchesFrom(low, p, from) ==
    {i \in from..(Len(low) - Len(p) + 1) : OccursAt(low, p, i)}

\* re.sub(re.escape(p), '', s, flags=re.IGNORECASE) from position `from` on:
\* the matches are taken left to right and do not overlap
RECURSIVE ReSubFrom(_, _, _, _)
ReSubFrom(s, low, p, from) ==
    IF MatchesFrom(low, p, from) = {}
    THEN SubSeq(s, from, Len(s))
    ELSE SubSeq(s, from, Min(MatchesFrom(low, p, from)) - 1)
         \o ReSubFrom(s, low, p, Min(MatchesFrom(low, p, from)) + Len(p))

ReSubIgnoreCase(s, p) == ReSubFrom(s, Lower(s), p, 1)

\* the loop over DANGEROUS_PATTERNS, from pattern number k on
RECURSIVE StripPatternsFrom(_, _)
StripPatternsFrom(s, k) ==
    IF k > Len(DANGEROUS_PATTERNS) THEN s
    ELSE IF Contains(Lower(s), DANGEROUS_PATTERNS[k])
         THEN StripPatternsFrom(ReSubIgnoreCase(s, DANGEROUS_PATTERNS[k]), k + 1)
         ELSE StripPatternsFrom(s, k + 1)

sanitise_message(message) ==
    Strip(StripPatternsFrom(DropControl(Strip(message)), 1))

\* dict.get(phone, [])
Get(st, phone) == IF phone \in DOMAIN st THEN st[phone] ELSE <<>>

\* d[phone] = ts
Put(st, phone, ts) ==
    [k \in DOMAIN st \cup {phone} |-> IF k = phone THEN ts ELSE st[k]]

\* the keys whose list is empty or whose newest timestamp is before the window
ExpiredKeys(st, window_start) ==
    {k \in DOMAIN st : st[k] = <<>> \/ st[k][Len(st[k])] < window_start}

\* for key in expired_keys: del _rate_limit_store[key]
Prune(st, window_start) ==
    [k \in DOMAIN st \ ExpiredKeys(st, window_start) |-> st[k]]

\* [t for t in timestamps if t > window_start]
InWindow(ts, window_start) ==
    LET Recent(t) == t > window_start IN SelectSeq(ts, Recent)

\* a limiter that lets one request too many through
OverLimitOffByOne(ts) == Len(ts) > MAX_REQUESTS_PER_HOUR

\* len(timestamps) >= MAX_REQUESTS_PER_HOUR
OverLimit(ts) == Len(ts) >= MAX_REQUESTS_PER_HOUR

\* a limiter that records the request before it decides
RejectedStoreRecords(pruned, phone, timestamps, t) ==
    Put(pruned, phone, Append(timestamps, t))

\* what a rejected call leaves in the table: the function returns before
\* timestamps is appended to or written back
RejectedStore(pruned, phone, timestamps, t) == pruned

\* check_rate_limit(phone) at clock t on table st: the result and the table
check_rate_limit(st, phone, t) ==
    LET window_start == t - RATE_LIMIT_WINDOW
        pruned       == Prune(st, window_start)
        timestamps   == InWindow(Get(pruned, phone), window_start)
    IN  IF OverLimit(timestamps)
        THEN [passed |-> FALSE, reason |-> RateLimitedText,
              store |-> RejectedStore(pruned, phone, timestamps, t)]
        ELSE [passed |-> TRUE, reason |-> <<>>,
              store |-> Put(pruned, phone, Append(timestamps, t))]

\* a gate that asks the rate limiter before it looks at the length
RateCheckFirst(st, phone, message, sanitised, skip, t) ==
    IF ~skip /\ ~check_rate_limit(st, phone, t).passed
    THEN [passed |-> FALSE, text |-> check_rate_limit(st, phone, t).reason,
          store |-> check_rate_limit(st, phone, t).store, rateChecked |-> TRUE]
    ELSE IF ~check_message_length(message).passed
    THEN [passed |-> FALSE, text |-> check_message_length(message).reason,
          store |-> IF skip THEN st ELSE check_rate_limit(st, phone, t).store,
          rateChecked |-> ~skip]
    ELSE [passed |-> TRUE, text |-> sanitised,
          store |-> IF skip THEN st ELSE check_rate_limit(st, phone, t).store,
          rateChecked |-> ~skip]

\* run_security_checks(phone, message, skip_rate_limit=skip) at clock t;
\* sanitised is sanitise_message(message)
run_security_checks(st, phone, message, sanitised, skip, t) ==
    IF ~check_message_length(message).passed
    THEN [passed |-> FALSE, text |-> check_message_length(message).reason,
          store |-> st, rateChecked |-> FALSE]
    ELSE IF skip
    THEN [passed |-> TRUE, text |-> sanitised, store |-> st, rateChecked |-> FALSE]
    ELSE IF ~check_rate_limit(st, phone, t).passed
    THEN [passed |-> FALSE, text |-> check_rate_limit(st, phone, t).reason,
          store |-> check_rate_limit(st, phone, t).store, rateChecked |-> TRUE]
    ELSE [passed |-> TRUE, text |-> sanitised,
          store |-> check_rate_limit(st, phone, t).store, rateChecked |-> TRUE]

---------------------------------------------------------------------------
(* safety/ai_utils/rag_system.py: SafetyRAG.chunk_text                     *)

\* backend/settings.py: SAFEGUARDAI
RAG_CHUNK_SIZE == 500

RAG_CHUNK_OVERLAP == 50

\* the inner while loop: i, the first word not taken, counted from 1
RECURSIVE TakeWords(_, _, _, _)
TakeWords(words, i, current_length, size) ==
    IF i <= Len(words) /\ current_length < size
    THEN TakeWords(words, i + 1, current_length + Len(words[i]) + 1, size)
    ELSE i

\* the loop over reversed(current_chunk): step_back, n words being counted
\* already with overlap_chars characters
RECURSIVE StepBack(_, _, _, _)
StepBack(current_chunk, n, overlap_chars, overlap) ==
    IF n = Len(current_chunk) THEN n
    ELSE IF overlap_chars + Len(current_chunk[Len(current_chunk) - n]) + 1 >= overlap
    THEN n + 1
    ELSE StepBack(current_chunk, n + 1,
                  overlap_chars + Len(current_chunk[Len(current_chunk) - n]) + 1,
                  overlap)

\* a chunker that starts the next chunk one word past the end of this one
NextStartSkipping(i, step_back, taken) == i + 1

\* start = i - step_back, moved one past the old start if it did not pass it
NextStart(i, step_back, taken) ==
    IF i - step_back <= i - taken THEN i - taken + 1 ELSE i - step_back

\* one round of the outer while loop from start: the chunk appended, i and
\* the next start
ChunkRound(words, start, size, overlap) ==
    [chunk |-> Join(SubSeq(words, start, TakeWords(words, start, 0, size) - 1)),
     i     |-> TakeWords(words, start, 0, size),
     start |-> NextStart(TakeWords(words, start, 0, size),
                         StepBack(SubSeq(words, start, TakeWords(words, start, 0, size) - 1),
                                  0, 0, overlap),
                         TakeWords(words, start, 0, size) - start)]

\* the outer while loop from start on
RECURSIVE ChunksFrom(_, _, _, _)
ChunksFrom(words, start, size, overlap) ==
    IF start > Len(words) THEN <<>>
    ELSE <<ChunkRound(words, start, size, overlap).chunk>>
         \o ChunksFrom(words, ChunkRound(words, start, size, overlap).start, size, overlap)

\* chunk_text(text) with CHUNK_SIZE = size and CHUNK_OVERLAP = overlap
chunk_text(text, size, overlap) == ChunksFrom(Split(text), 1, size, overlap)

---------------------------------------------------------------------------
(* safety/ai_utils/rag_system.py: SafetyRAG.add_document.  The collection  *)
(* is the set of its records; the vector store answers every call, the     *)
(* embedding service may fail on any chunk.                                *)

CHUNK_INFIX == <<"_","c","h","u","n","k","_">>

INDEXING_FAILED == <<"I","n","d","e","x","i","n","g"," ","f","a","i","l","e","d",":"," ">>

EMBEDDING_API_ERROR == <<"E","m","b","e","d","d","i","n","g"," ","A","P","I"," ","e","r","r","o","r">>

API_KEY_WORD == <<"a","p","i","_","k","e","y">>

AUTHENTICATION_WORD == <<"a","u","t","h","e","n","t","i","c","a","t","i","o","n">>

CONNECTION_WORD == <<"c","o","n","n","e","c","t","i","o","n">>

TIMEOUT_WORD == <<"t","i","m","e","o","u","t">>

KEY_MESSAGE == <<"O","p","e","n","A","I"," ","A","P","I"," ","k","e","y"," ","i","s"," ","m","i","s","s","i","n","g"," ","o","r"," ","i","n","v","a","l","i","d","."," ","C","h","e","c","k"," ","O","P","E","N","A","I","_","A","P","I","_","K","E","Y"," ","i","n"," ",".","e","n","v">>

REACH_MESSAGE == <<"C","o","u","l","d"," ","n","o","t"," ","r","e","a","c","h"," ","O","p","e","n","A","I"," ","(","c","o","n","n","e","c","t","i","o","n"," ","o","r"," ","t","i","m","e","o","u","t",")","."," ","C","h","e","c","k"," ","n","e","t","w","o","r","k"," ","a","n","d"," ","t","r","y"," ","a","g","a","i","n",".">>

DigitChars == <<"0","1","2","3","4","5","6","7","8","9">>

\* str(i)
RECURSIVE Digits(_)
Digits(n) ==
    IF n < 10 THEN <<DigitChars[n + 1]>>
    ELSE Digits(n \div 10) \o Digits(n % 10)

\* f"{document_title}_chunk_{i}"
ChunkId(document_title, i) == document_title \o CHUNK_INFIX \o Digits(i)

\* the titles the collection's metadata names
get_sources_list(coll) == {r.source : r \in {q \in coll : q.source # <<>>}}

is_document_indexed(coll, document_title) == document_title \in get_sources_list(coll)

\* an add_document that never skips
SkipsNever(force, already_indexed) == FALSE

\* if not force and already_indexed: return
Skips(force, already_indexed) == ~force /\ already_indexed

\* a delete that removes nothing
DeleteNothing(coll, document_title) == coll

\* collection.delete(where={"source": document_title})
DeleteWhereSource(coll, document_title) == {r \in coll : r.source # document_title}

\* collection.add: a record whose id the collection has is left out
AddRecords(coll, records) ==
    coll \cup {r \in records : \A q \in coll : q.id # r.id}

\* the records made of the chunks whose embedding came back; chunk i of the
\* code is the_chunks[i + 1]
EmbeddedRecords(file_path, document_title, the_chunks, outcome) ==
    {[id          |-> ChunkId(document_title, i),
      source      |-> document_title,
      chunk_index |-> i,
      file_path   |-> file_path,
      document    |-> the_chunks[i + 1]] : i \in {j \in 0..(Len(the_chunks) - 1) : outcome[j + 1].ok}}

NoError == [raised |-> FALSE, text |-> <<>>]

\* first_error after the loop over the chunks
FirstError(outcome) ==
    IF \A i \in 1..Len(outcome) : outcome[i].ok THEN NoError
    ELSE [raised |-> TRUE,
          text   |-> outcome[Min({i \in 1..Len(outcome) : ~outcome[i].ok})].error]

\* the text of the RuntimeError
IndexingFailedText(error_text) ==
    INDEXING_FAILED \o
    (IF Contains(Lower(IF Strip(error_text) = <<>> THEN EMBEDDING_API_ERROR ELSE Strip(error_text)),
                 API_KEY_WORD)
        \/ Contains(Lower(IF Strip(error_text) = <<>> THEN EMBEDDING_API_ERROR ELSE Strip(error_text)),
                    AUTHENTICATION_WORD)
     THEN KEY_MESSAGE
     ELSE IF Contains(Lower(IF Strip(error_text) = <<>> THEN EMBEDDING_API_ERROR ELSE Strip(error_text)),
                      CONNECTION_WORD)
             \/ Contains(Lower(IF Strip(error_text) = <<>> THEN EMBEDDING_API_ERROR ELSE Strip(error_text)),
                         TIMEOUT_WORD)
     THEN REACH_MESSAGE
     ELSE IF Strip(error_text) = <<>> THEN EMBEDDING_API_ERROR ELSE Strip(error_text))

ERR_KEY == <<"E","r","r","o","r"," ","c","o","d","e",":"," ","4","0","1"," ","-"," ","i","n","v","a","l","i","d","_","a","p","i","_","k","e","y">>

ERR_AUTH == <<" ","A","u","t","h","e","n","t","i","c","a","t","i","o","n"," ","f","a","i","l","e","d">>

ERR_CONNECTION == <<"C","o","n","n","e","c","t","i","o","n"," ","e","r","r","o","r",".">>

ERR_TIMEOUT == <<"R","e","a","d"," ","T","i","m","e","o","u","t">>

ERR_TIMED_OUT == <<"R","e","q","u","e","s","t"," ","t","i","m","e","d"," ","o","u","t",".">>

ERR_RATE == <<"R","a","t","e"," ","l","i","m","i","t"," ","r","e","a","c","h","e","d"," ">>

ERR_BLANK == <<" ">>

\* what the embedding service may raise
ErrorTexts == {ERR_KEY, ERR_AUTH, ERR_CONNECTION, ERR_TIMEOUT, ERR_TIMED_OUT, ERR_RATE, ERR_BLANK}

\* the text of the RuntimeError for each of them
IndexingFailedTexts == {<<e, IndexingFailedText(e)>> : e \in ErrorTexts}

IndexingFailedTextOf(error_text) ==
    (CHOOSE pair \in IndexingFailedTexts : pair[1] = error_text)[2]

\* an add_document that raises as soon as one chunk failed
RaisesOnAnyError(records, the_chunks, first_error) == first_error.raised

\* `if ids: ... elif chunks and first_error is not None: raise`
Raises(records, the_chunks, first_error) ==
    records = {} /\ the_chunks # <<>> /\ first_error.raised

\* the rest of add_document once the chunks are embedded: cleared is the
\* collection after the delete of a forced re-index, records what the loop
\* over the chunks embedded
Commit(cleared, records, the_chunks, first_error, requested) ==
    IF Raises(records, the_chunks, first_error)
    THEN [collection |-> cleared, result |-> "raised",
          message |-> IndexingFailedTextOf(first_error.text),
          loaded |-> TRUE, requested |-> requested]
    ELSE [collection |-> AddRecords(cleared, records), result |-> "returned",
          message |-> <<>>, loaded |-> TRUE, requested |-> requested]

\* add_document(file_path, document_title, force) on the collection coll,
\* when chunk_text cut the file into the_chunks and the embedding of
\* the_chunks[i] answers outcome[i]
add_document(coll, file_path, document_title, force, the_chunks, outcome) ==
    IF Skips(force, is_document_indexed(coll, document_title))
    THEN [collection |-> coll, result |-> "skipped", message |-> <<>>,
          loaded |-> FALSE, requested |-> 0]
    ELSE Commit(IF force /\ is_document_indexed(coll, document_title)
                THEN DeleteWhereSource(coll, document_title) ELSE coll,
                EmbeddedRecords(file_path, document_title, the_chunks, outcome),
                the_chunks, FirstError(outcome), Len(the_chunks))

---------------------------------------------------------------------------
(* More of Python's str and re                                             *)

\* s[from - 1:] of Python, from counted from 1
From(s, from) == SubSeq(s, from, Len(s))

StartsWith(s, p) == OccursAt(s, p, 1)

\* s.find(p, from - 1) + 1: where p first occurs at from or later, 0 if nowhere
ZeroIfPast(i, to) == IF i > to THEN 0 ELSE i

FindFrom(s, p, from) ==
    ZeroIfPast(First(from, Len(s) - Len(p) + 1, LAMBDA i : OccursAt(s, p, i)),
               Len(s) - Len(p) + 1)

\* s.rfind(p, 0, to) + 1: where p last occurs within the first `to` characters
RFind(s, p, to) == Last(1, Min({to, Len(s)}) - Len(p) + 1, LAMBDA i : OccursAt(s, p, i))

\* s.replace(old, new) from position from on; at is where old occurs next
RECURSIVE ReplaceAt(_, _, _, _, _)
ReplaceAt(s, old, new, from, at) ==
    IF at = 0 THEN From(s, from)
    ELSE SubSeq(s, from, at - 1) \o new
         \o ReplaceAt(s, old, new, at + Len(old), FindFrom(s, old, at + Len(old)))

Replace(s, old, new) == ReplaceAt(s, old, new, 1, FindFrom(s, old, 1))

\* s.rstrip()
RStrip(s) == SubSeq(s, 1, Last(1, Len(s), LAMBDA i : ~IsSpace(s[i])))

\* s.rstrip(chars)
RStripChars(s, chars) == SubSeq(s, 1, Last(1, Len(s), LAMBDA i : s[i] \notin chars))

\* the end of the run of characters in class that begins at from: the first
\* position at from or later whose character is not in it
RunEnd(s, from, InClass(_)) == First(from, Len(s), LAMBDA i : ~InClass(s[i]))

\* re.sub(r'\s+', ' ', s) from position from on; at is the next white space
RECURSIVE CollapseAt(_, _, _)
CollapseAt(s, from, at) ==
    IF at > Len(s) THEN From(s, from)
    ELSE SubSeq(s, from, at - 1) \o <<" ">>
         \o CollapseAt(s, RunEnd(s, at, IsSpace),
                       First(RunEnd(s, at, IsSpace), Len(s), LAMBDA i : IsSpace(s[i])))

CollapseSpaces(s) == CollapseAt(s, 1, First(1, Len(s), LAMBDA i : IsSpace(s[i])))

NotNewline(c) == c # "\n"

NotSpace(c) == ~IsSpace(c)

\* what re.sub does with a pattern that never matches the empty string:
\* ends[i] is the position after the match that begins at i, 0 if none
\* begins there; at is where the next match begins
RECURSIVE SubAt(_, _, _, _, _)
SubAt(s, ends, repl, from, at) ==
    IF at > Len(s) THEN From(s, from)
    ELSE SubSeq(s, from, at - 1) \o repl
         \o SubAt(s, ends, repl, ends[at], First(ends[at], Len(s), LAMBDA i : ends[i] # 0))

ReSub(s, ends, repl) == SubAt(s, ends, repl, 1, First(1, Len(s), LAMBDA i : ends[i] # 0))

\* ends, from the test of one position
EndsOf(s, MatchEnd(_)) == SubSeq([i \in 1..Len(s) |-> MatchEnd(i)], 1, Len(s))

\* the character at i, or none past the end
CharAt(s, i) == IF i >= 1 /\ i <= Len(s) THEN s[i] ELSE "<none>"


---------------------------------------------------------------------------
(* backend/settings.py: SAFEGUARDAI; safety/ai_utils/tools.py              *)

MAX_WHATSAPP_MESSAGE_LENGTH == 1400

\* 0.45: distances are counted in hundredths
RAG_RELEVANCE_DISTANCE_THRESHOLD == 45

NOT_IN_DOCUMENTS_MESSAGE ==
    <<"T","h","i","s"," ","i","s","n","'","t"," ","i","n"," ","o","u","r"," ","s","a","f","e","t","y"," ","d","o","c","u","m","e","n","t","s","."," ">>
    \o <<"P","l","e","a","s","e"," ","c","o","n","t","a","c","t"," ","y","o","u","r"," ","H","S","E"," ","o","f","f","i","c","e","r"," ","o","r"," ","c","h","e","c","k"," ","c","o","m","p","a","n","y"," ","c","o","m","m","u","n","i","c","a","t","i","o","n","s",".">>

TOPIC_REQUIRED_SOURCE_HINTS == <<>>

IMAGE_TRIGGER_PHRASES == <<
    <<"s","h","o","w"," ","m","e">>,
    <<"d","r","a","w">>,
    <<"p","i","c","t","u","r","e">>,
    <<"v","i","s","u","a","l">>,
    <<"i","l","l","u","s","t","r","a","t","e">>,
    <<"i","m","a","g","e"," ","o","f">>,
    <<"i","m","a","g","e"," ","f","o","r">>,
    <<"f","i","g","u","r","e"," ","o","f">>,
    <<"p","h","o","t","o">> >>

COMPLEXITY_MEDIUM_THRESHOLD == 2

COMPLEXITY_COMPLEX_THRESHOLD == 5

SAFEGUARD_IMAGE_URL_PREFIX == <<"S","A","F","E","G","U","A","R","D","_","I","M","A","G","E","_","U","R","L",":">>

---------------------------------------------------------------------------
(* safety/ai_utils/agents.py                                               *)

ISNT_IN_DOCS == <<"i","s","n","'","t"," ","i","n"," ","o","u","r"," ","s","a","f","e","t","y"," ","d","o","c","u","m","e","n","t","s">>

NOT_IN_DOCS == <<"n","o","t"," ","i","n"," ","o","u","r"," ","s","a","f","e","t","y"," ","d","o","c","u","m","e","n","t","s">>

\* while '**' in answer: answer = answer.replace('**', '*')
RECURSIVE NormaliseBold(_)
NormaliseBold(answer) ==
    IF Contains(answer, <<"*","*">>) THEN NormaliseBold(Replace(answer, <<"*","*">>, <<"*">>))
    ELSE answer

\* the rest of _classify_not_in_docs_reply, an and nn being worked out
ClassifyNormalised(an, nn) ==
    [replace_with_fallback |->
         \/ an = nn
         \/ /\ Len(an) <= Len(nn) * 2
            /\ \/ Contains(an, ISNT_IN_DOCS)
               \/ Contains(an, NOT_IN_DOCS)
               \/ (nn # <<>> /\ Contains(an, SubSeq(nn, 1, Min({50, Len(nn)})))),
     omit_sources |->
         \/ Contains(an, ISNT_IN_DOCS)
         \/ Contains(an, NOT_IN_DOCS)
         \/ (nn # <<>> /\ Contains(an, SubSeq(nn, 1, Min({50, Len(nn)}))))]

classify_not_in_docs_reply(answer, not_in_docs_msg) ==
    ClassifyNormalised(Lower(CollapseSpaces(Strip(answer))),
                       Lower(CollapseSpaces(Strip(not_in_docs_msg))))

SOURCES_KEY == <<"S","o","u","r","c","e","s",":">>

SOURCE_KEY == <<"S","o","u","r","c","e",":">>

\* r'\n?\s*\*?Sources?:\*?\s*[^\n]*': Sources?: read at k, the position
\* after the colon
SourcesKeyEnd(s, k) ==
    IF OccursAt(s, SOURCES_KEY, k) THEN k + Len(SOURCES_KEY)
    ELSE IF OccursAt(s, SOURCE_KEY, k) THEN k + Len(SOURCE_KEY)
    ELSE 0

\* \*?\s*[^\n]* read after the colon
SourcesLineEnd(s, c) ==
    IF c = 0 THEN 0
    ELSE RunEnd(s, RunEnd(s, IF CharAt(s, c) = "*" THEN c + 1 ELSE c, IsSpace), NotNewline)

\* the pattern read at j, the white space before it being passed
SourcesAt(s, j) ==
    SourcesLineEnd(s, SourcesKeyEnd(s, IF CharAt(s, j) = "*" THEN j + 1 ELSE j))

\* re.sub(r'\n?\s*\*?Sources?:\*?\s*[^\n]*', '', answer)
StripSourceLines(answer) ==
    ReSub(answer, EndsOf(answer, LAMBDA p : SourcesAt(answer, RunEnd(answer, p, IsSpace))), <<>>)

HTTPS == <<"h","t","t","p","s",":","/","/">>

HTTP == <<"h","t","t","p",":","/","/">>

DALLE_HOST == <<"h","t","t","p","s",":","/","/","o","a","i","d","a","l","l","e","a","p","i","p","r","o","d","s","c","u","s",".","b","l","o","b",".","c","o","r","e",".","w","i","n","d","o","w","s",".","n","e","t","/">>

DALLE_WORD == <<"o","a","i","d","a","l","l","e","a","p","i","p","r","o","d","s","c","u","s">>

\* [^\s\n\)\]\>]
UrlChar(c) == ~IsSpace(c) /\ c \notin {")", "]", ">"}

\* [^\s\n\)\]\>\"]
BareUrlChar(c) == ~IsSpace(c) /\ c \notin {")", "]", ">", "\""}

\* prefix and one UrlChar or more read at k: the match, '.,;' stripped from
\* its end, or nothing
UrlAt(text, prefix, k) ==
    IF k # 0 /\ OccursAt(text, prefix, k) /\ k + Len(prefix) <= Len(text)
       /\ UrlChar(text[k + Len(prefix)])
    THEN RStripChars(SubSeq(text, k, RunEnd(text, k + Len(prefix), UrlChar) - 1), {".", ",", ";"})
    ELSE <<>>

\* re.search of the DALL-E address: the first place it matches
DalleUrl(text) ==
    UrlAt(text, DALLE_HOST,
          ZeroIfPast(First(1, Len(text),
                           LAMBDA k : OccursAt(text, DALLE_HOST, k)
                                      /\ k + Len(DALLE_HOST) <= Len(text)
                                      /\ UrlChar(text[k + Len(DALLE_HOST)])),
                     Len(text)))

\* the second branch of _extract_image_url
ExtractDalleUrl(text) ==
    IF Contains(text, DALLE_WORD) THEN DalleUrl(text) ELSE <<>>

\* _extract_image_url; None is the empty text
extract_image_url(text) ==
    IF text = <<>> THEN <<>>
    ELSE IF Contains(text, SAFEGUARD_IMAGE_URL_PREFIX)
            /\ UrlAt(text, HTTPS, FindFrom(text, SAFEGUARD_IMAGE_URL_PREFIX, 1)
                                  + Len(SAFEGUARD_IMAGE_URL_PREFIX)) # <<>>
    THEN UrlAt(text, HTTPS, FindFrom(text, SAFEGUARD_IMAGE_URL_PREFIX, 1)
                            + Len(SAFEGUARD_IMAGE_URL_PREFIX))
    ELSE ExtractDalleUrl(text)

\* r'\n?' read at p: the position the rest of the pattern is read at
PastNewline(s, p) == IF CharAt(s, p) = "\n" THEN p + 1 ELSE p

\* https?:// read at w in low: the position after it, or 0
HttpEnd(low, w) ==
    IF OccursAt(low, HTTPS, w) THEN w + Len(HTTPS)
    ELSE IF OccursAt(low, HTTP, w) THEN w + Len(HTTP)
    ELSE 0

\* one character or more of the class read at h: the position after them, 0
\* if there is none
RunEndSome(s, h, InClass(_)) ==
    IF h # 0 /\ h <= Len(s) /\ InClass(s[h]) THEN RunEnd(s, h, InClass) ELSE 0

\* key read at k and then the rest of the line
KeyLineEnd(s, key, k) ==
    IF OccursAt(s, key, k) THEN RunEnd(s, k + Len(key), NotNewline) ELSE 0

\* re.sub(r'\n?' + re.escape(SAFEGUARD_IMAGE_URL_PREFIX) + r'[^\n]*', '', answer)
StripMarkerLines(answer) ==
    ReSub(answer,
          EndsOf(answer, LAMBDA p : KeyLineEnd(answer, SAFEGUARD_IMAGE_URL_PREFIX,
                                               PastNewline(answer, p))),
          <<>>)

VIEW_HERE == <<"v","i","e","w"," ","h","e","r","e",":">>

\* View here:\s*https?://[^\n]+ read at k, letters in any case
ViewHereAt(s, low, k) ==
    IF OccursAt(low, VIEW_HERE, k)
    THEN RunEndSome(s, HttpEnd(low, RunEnd(s, k + Len(VIEW_HERE), IsSpace)), NotNewline)
    ELSE 0

\* re.sub(r'\n?View here:\s*https?://[^\n]+', '', answer, flags=re.IGNORECASE)
StripViewHere(answer, low) ==
    ReSub(answer, EndsOf(answer, LAMBDA p : ViewHereAt(answer, low, PastNewline(answer, p))), <<>>)

NOTE_KEY == <<"N","o","t","e",":">>

LINK_EXPIRES == <<"T","h","i","s"," ","l","i","n","k"," ","e","x","p","i","r","e","s">>

\* Note:\s*This link expires[^\n]* read at k
NoteAt(s, k) ==
    IF OccursAt(s, NOTE_KEY, k)
    THEN KeyLineEnd(s, LINK_EXPIRES, RunEnd(s, k + Len(NOTE_KEY), IsSpace))
    ELSE 0

\* re.sub(r'\n?Note:\s*This link expires[^\n]*', '', answer)
StripExpiryNote(answer) ==
    ReSub(answer, EndsOf(answer, LAMBDA p : NoteAt(answer, PastNewline(answer, p))), <<>>)

\* re.sub(r'https?://[^\s\n\)\]\>\"]+', '', answer, flags=re.IGNORECASE)
StripUrls(answer, low) ==
    ReSub(answer, EndsOf(answer, LAMBDA p : RunEndSome(answer, HttpEnd(low, p), BareUrlChar)), <<>>)

\* ^\s*https?://[^\s\n]+\s*\r?\n? read at p
UrlLineAt(s, p) ==
    IF p = 1 \/ CharAt(s, p - 1) = "\n"
    THEN IF RunEndSome(s, HttpEnd(s, RunEnd(s, p, IsSpace)), NotSpace) = 0 THEN 0
         ELSE RunEnd(s, RunEndSome(s, HttpEnd(s, RunEnd(s, p, IsSpace)), NotSpace), IsSpace)
    ELSE 0

\* re.sub(r'(?m)^\s*https?://[^\s\n]+\s*\r?\n?', '', answer)
StripUrlLines(answer) ==
    ReSub(answer, EndsOf(answer, LAMBDA p : UrlLineAt(answer, p)), <<>>)

NotBracket(c) == c # "]"

\* \s*\(\s*\) read at w
EmptyParensAt(s, w) ==
    IF CharAt(s, w) = "(" /\ CharAt(s, RunEnd(s, w + 1, IsSpace)) = ")"
    THEN RunEnd(s, w + 1, IsSpace) + 1
    ELSE 0

\* !\[[^\]]*\]\s*\(\s*\) read at p
EmptyImageAt(s, p) ==
    IF CharAt(s, p) = "!" /\ CharAt(s, p + 1) = "["
       /\ CharAt(s, RunEnd(s, p + 2, NotBracket)) = "]"
    THEN EmptyParensAt(s, RunEnd(s, RunEnd(s, p + 2, NotBracket) + 1, IsSpace))
    ELSE 0

\* re.sub(r'!\[[^\]]*\]\s*\(\s*\)', '', answer)
StripEmptyImages(answer) ==
    ReSub(answer, EndsOf(answer, LAMBDA p : EmptyImageAt(answer, p)), <<>>)

IsNewline(c) == c = "\n"

IsBlank(c) == c = " "

\* re.sub(r'\n{3,}', '\n\n', answer)
SquashNewlines(answer) ==
    ReSub(answer,
          EndsOf(answer, LAMBDA p : IF OccursAt(answer, <<"\n","\n","\n">>, p)
                                    THEN RunEnd(answer, p, IsNewline) ELSE 0),
          <<"\n","\n">>)

\* re.sub(r'  +', ' ', answer)
SquashBlanks(answer) ==
    ReSub(answer,
          EndsOf(answer, LAMBDA p : IF OccursAt(answer, <<" "," ">>, p)
                                    THEN RunEnd(answer, p, IsBlank) ELSE 0),
          <<" ">>)

\* the first two substitutions made `if image_url:`
StripImageLines(answer) == StripViewHere(StripMarkerLines(answer), Lower(StripMarkerLines(answer)))

\* the first four
StripImageUrls(answer) ==
    StripUrls(StripExpiryNote(StripImageLines(answer)),
              Lower(StripExpiryNote(StripImageLines(answer))))

\* all that is done to the answer `if image_url:`
CleanImageAnswer(answer) ==
    Strip(SquashBlanks(SquashNewlines(StripEmptyImages(StripUrlLines(StripImageUrls(answer))))))

SENTENCE_ENDS == <<<<".", " ">>, <<"!", " ">>, <<"?", " ">>, <<"\n">>>>

\* the `for sep in ('. ', '! ', '? ', '\n')` loop from separator k on, and
\* its else branch
RECURSIVE TrimAt(_, _, _)
TrimAt(answer, max_len, k) ==
    IF k > Len(SENTENCE_ENDS)
    THEN IF RFind(answer, <<" ">>, max_len) > 1
         THEN RStrip(SubSeq(answer, 1, RFind(answer, <<" ">>, max_len)))
         ELSE RStrip(SubSeq(answer, 1, max_len - 1))
    ELSE IF RFind(answer, SENTENCE_ENDS[k], max_len) # 0
    THEN RStrip(SubSeq(answer, 1, RFind(answer, SENTENCE_ENDS[k], max_len)
                                   + Len(SENTENCE_ENDS[k]) - 1))
    ELSE TrimAt(answer, max_len, k + 1)

\* the answer left as it was cut
LeftOpen(answer) == answer

\* if answer and not answer.endswith(('.', '!', '?')): answer += '.'
ClosedWithStop(answer) ==
    IF answer # <<>> /\ answer[Len(answer)] \notin {".", "!", "?"}
    THEN Append(answer, ".") ELSE answer

\* the hard limit
Truncate(answer, max_len) ==
    IF Len(answer) > max_len THEN ClosedWithStop(TrimAt(answer, max_len, 1)) ELSE answer

SOURCES_LABEL == <<"\n","\n","*","S","o","u","r","c","e","s",":","*"," ">>

\* sep.join(items)
RECURSIVE JoinWith(_, _)
JoinWith(items, sep) ==
    IF items = <<>> THEN <<>>
    ELSE IF Len(items) = 1 THEN items[1]
    ELSE items[1] \o sep \o JoinWith(Tail(items), sep)

\* if sources and not omit_sources: answer = answer + "\n\n*Sources:* " + ", ".join(sources)
Attributed(answer, sources, omit_sources) ==
    IF sources # <<>> /\ ~omit_sources
    THEN answer \o SOURCES_LABEL \o JoinWith(sources, <<",", " ">>)
    ELSE answer

\* any(w in text for w in words)
AnyIn(words, text) == \E i \in 1..Len(words) : Contains(text, words[i])

\* _user_asked_for_image
user_asked_for_image(query) == AnyIn(IMAGE_TRIGGER_PHRASES, Strip(Lower(query)))

\* settings.SAFEGUARDAI['IMAGE_DESCRIPTION_MAX_LENGTH']
IMAGE_DESCRIPTION_MAX_LENGTH == 120

\* settings.SAFEGUARDAI['IMAGE_DESCRIPTION_FALLBACK']
IMAGE_DESCRIPTION_FALLBACK ==
    <<"w","o","r","k","p","l","a","c","e"," ","s","a","f","e","t","y"," ","e","q","u","i","p","m","e","n","t"," ","a","n","d"," ","p","r","o","c","e","d","u","r","e","s">>

\* for lead in ('of ', 'a ', 'an ', 'the ')
IMAGE_LEADS == <<<<"o","f"," ">>, <<"a"," ">>, <<"a","n"," ">>, <<"t","h","e"," ">>>>

RECURSIVE WithoutLead(_, _)
\* the first of the leads from the k-th on that the text starts with is taken away
WithoutLead(after, k) ==
    IF k > Len(IMAGE_LEADS) THEN after
    ELSE IF StartsWith(Lower(after), IMAGE_LEADS[k])
    THEN Strip(From(after, Len(IMAGE_LEADS[k]) + 1))
    ELSE WithoutLead(after, k + 1)

\* after, for a phrase that occurs in the query
AfterPhrase(q, phrase) ==
    WithoutLead(Strip(From(q, FindFrom(Lower(q), phrase, 1) + Len(phrase))), 1)

RECURSIVE DescribedFrom(_, _)
\* the loop over the trigger phrases, from the k-th on
DescribedFrom(q, k) ==
    IF k > Len(IMAGE_TRIGGER_PHRASES) THEN q
    ELSE IF Contains(Lower(q), IMAGE_TRIGGER_PHRASES[k])
            /\ AfterPhrase(q, IMAGE_TRIGGER_PHRASES[k]) # <<>>
    THEN AfterPhrase(q, IMAGE_TRIGGER_PHRASES[k])
    ELSE DescribedFrom(q, k + 1)

\* if len(q) > max_len: ...
Shortened(q, max_len) ==
    IF Len(q) <= max_len THEN q
    ELSE IF Contains(SubSeq(q, 1, max_len - 3), <<" ">>)
    THEN SubSeq(q, 1, RFind(q, <<" ">>, max_len - 3) - 1) \o <<".", ".", ".">>
    ELSE SubSeq(q, 1, max_len)

\* _description_for_image
description_for_image(query) ==
    IF Shortened(DescribedFrom(Strip(query), 1), IMAGE_DESCRIPTION_MAX_LENGTH) # <<>>
    THEN Shortened(DescribedFrom(Strip(query), 1), IMAGE_DESCRIPTION_MAX_LENGTH)
    ELSE IMAGE_DESCRIPTION_FALLBACK

PROCEDURE_WORDS == <<<<"s","t","e","p","s">>, <<"p","r","o","c","e","d","u","r","e">>, <<"p","r","o","c","e","s","s">>, <<"h","o","w"," ","t","o">>>>

EMERGENCY_WORDS == <<<<"e","m","e","r","g","e","n","c","y">>, <<"a","c","c","i","d","e","n","t">>, <<"i","n","j","u","r","y">>, <<"o","c","c","u","r","s">>, <<"i","f">>>>

MULTIPLE_WORDS == <<<<"a","n","d">>, <<"a","l","s","o">>, <<"p","l","u","s">>, <<"a","s"," ","w","e","l","l"," ","a","s">>>>

YESNO_STARTS == <<<<"c","a","n"," ","i">>, <<"s","h","o","u","l","d"," ","i">>, <<"i","s"," ","i","t">>, <<"d","o"," ","i">>, <<"m","a","y"," ","i">>, <<"a","m"," ","i">>>>

ALL_WORDS == <<<<"a","l","l">>, <<"e","v","e","r","y">>, <<"c","o","m","p","l","e","t","e">>, <<"f","u","l","l"," ","l","i","s","t">>>>

LIST_WORDS == <<<<"p","p","e">>, <<"e","q","u","i","p","m","e","n","t">>, <<"t","o","o","l","s">>, <<"r","e","q","u","i","r","e","m","e","n","t","s">>, <<"n","e","e","d">>, <<"r","e","q","u","i","r","e","d">>>>

\* the score analyze_query_complexity adds up before the yes/no rule
ComplexityScore(query_lower, word_count) ==
    (IF AnyIn(PROCEDURE_WORDS, query_lower) THEN 3 ELSE 0)
    + (IF AnyIn(EMERGENCY_WORDS, query_lower) THEN 2 ELSE 0)
    + (IF AnyIn(MULTIPLE_WORDS, query_lower) THEN 2 ELSE 0)
    + (IF AnyIn(ALL_WORDS, query_lower) THEN 2 ELSE 0)
    + (IF AnyIn(LIST_WORDS, query_lower) THEN 2 ELSE 0)
    + (IF word_count > 12 THEN 1 ELSE 0)

\* complexity, from the score and is_yesno
ComplexityOf(score, is_yesno) ==
    IF (IF is_yesno /\ score = 0 THEN -1 ELSE score) >= COMPLEXITY_COMPLEX_THRESHOLD THEN "complex"
    ELSE IF (IF is_yesno /\ score = 0 THEN -1 ELSE score) >= COMPLEXITY_MEDIUM_THRESHOLD THEN "medium"
    ELSE "simple"

\* analyze_query_complexity(query)['complexity']
analyze_query_complexity(query) ==
    ComplexityOf(ComplexityScore(Lower(query), Len(Split(query))),
                 \E i \in 1..Len(YESNO_STARTS) : StartsWith(Lower(query), YESNO_STARTS[i]))

\* _query_expects_topic_not_in_sources, hints being _get_topic_hints(): a
\* rule is a pair of keywords and required_in_source
query_expects_topic_not_in_sources(query, sources, hints) ==
    \E r \in 1..Len(hints) :
        /\ AnyIn(hints[r][1], Lower(query))
        /\ ~AnyIn(hints[r][2], Lower(JoinWith(sources, <<" ">>)))

\* a chunk's distance when the index gave none
NoDistance == -1

\* _best_distance
best_distance(the_chunks) ==
    IF \A i \in 1..Len(the_chunks) : the_chunks[i].distance = NoDistance THEN NoDistance
    ELSE Min({the_chunks[i].distance : i \in {j \in 1..Len(the_chunks) :
                                                 the_chunks[j].distance # NoDistance}})

\* the distance gate left out
RetrievedUngated(conversation_sources, first, second) ==
    IF first = <<>> THEN [passed |-> FALSE, rag_results |-> <<>>, searches |-> 1]
    ELSE [passed |-> TRUE, rag_results |-> first, searches |-> 1]

\* the searches process_safety_query makes and the passages it goes on with:
\* first is what rag.search answers the query, second what it answers the
\* augmented query
Retrieved(conversation_sources, first, second) ==
    IF first = <<>> THEN [passed |-> FALSE, rag_results |-> <<>>, searches |-> 1]
    ELSE IF best_distance(first) # NoDistance
            /\ best_distance(first) > RAG_RELEVANCE_DISTANCE_THRESHOLD
    THEN IF conversation_sources # <<>>
         THEN IF second # <<>> /\ best_distance(second) # NoDistance
                 /\ best_distance(second) <= RAG_RELEVANCE_DISTANCE_THRESHOLD
              THEN [passed |-> TRUE, rag_results |-> second, searches |-> 2]
              ELSE [passed |-> FALSE, rag_results |-> <<>>, searches |-> 2]
         ELSE [passed |-> FALSE, rag_results |-> <<>>, searches |-> 1]
    ELSE [passed |-> TRUE, rag_results |-> first, searches |-> 1]

\* set(chunk['source'] for chunk in rag_results)
SourceSet(rag_results) == {rag_results[i].source : i \in 1..Len(rag_results)}

\* the three early returns
NotInDocuments(searches) ==
    [raised |-> FALSE, answer |-> NOT_IN_DOCUMENTS_MESSAGE, sources |-> <<>>,
     image_url |-> <<>>, image_key |-> FALSE, searches |-> searches,
     llm_calls |-> 0, image_calls |-> 0]

\* crew.kickoff() raised
Raised(searches) ==
    [raised |-> TRUE, answer |-> <<>>, sources |-> <<>>, image_url |-> <<>>,
     image_key |-> FALSE, searches |-> searches, llm_calls |-> 1, image_calls |-> 0]

\* the answer either strategy hands on: direct is the single call, which
\* answers the canonical message when the model fails
Synthesised(direct, llm) ==
    IF llm.ok THEN Strip(llm.text) ELSE IF direct THEN NOT_IN_DOCUMENTS_MESSAGE ELSE <<>>

\* lines 498-513 on the answer, the image being dealt with
Trimmed(answer, cls, image_url, image_calls) ==
    [answer |-> Truncate(IF image_url # <<>> THEN CleanImageAnswer(answer) ELSE answer,
                         MAX_WHATSAPP_MESSAGE_LENGTH),
     replace_with_fallback |-> cls.replace_with_fallback,
     omit_sources |-> cls.omit_sources,
     image_url |-> image_url,
     image_calls |-> image_calls]

\* lines 472-485: found is what _extract_image_url made of the answer, tool
\* what safety_image_tool.run does if it is called
WithImage(answer, cls, found, asked, tool) ==
    Trimmed(answer, cls,
            IF found # <<>> THEN found
            ELSE IF asked /\ tool.ok THEN extract_image_url(tool.text) ELSE <<>>,
            IF asked /\ found = <<>> THEN 1 ELSE 0)

\* line 470 on
Stripped(answer, cls, asked, tool) ==
    WithImage(answer, cls, extract_image_url(answer), asked, tool)

\* lines 465-470
Classified(answer, cls, asked, tool) ==
    Stripped(Strip(StripSourceLines(IF cls.replace_with_fallback
                                    THEN NOT_IN_DOCUMENTS_MESSAGE ELSE answer)),
             cls, asked, tool)

\* lines 459-470, answer having no '**' left
Normalised(answer, asked, tool) ==
    Classified(answer, classify_not_in_docs_reply(answer, NOT_IN_DOCUMENTS_MESSAGE), asked, tool)

\* lines 457-513: what process_safety_query makes of the synthesised answer,
\* but for the sources
PostProcess(answer, asked, tool) == Normalised(NormaliseBold(answer), asked, tool)

\* lines 515-530, done being what PostProcess made of the answer
Answered(done, sources, searches) ==
    [raised |-> FALSE,
     answer |-> Attributed(done.answer,
                           IF done.replace_with_fallback THEN <<>> ELSE sources,
                           done.omit_sources),
     sources |-> IF done.replace_with_fallback THEN <<>> ELSE sources,
     image_url |-> done.image_url, image_key |-> TRUE, searches |-> searches,
     llm_calls |-> 1, image_calls |-> done.image_calls]

\* process_safety_query(query, conversation_sources): got is Retrieved(..),
\* sources is list(set(..)) of its passages in the order the set gave them,
\* llm is what the language model did, direct whether the query is simple
\* and asks for no image, done what PostProcess made of the answer, hints
\* what the settings give _get_topic_hints()
process_safety_query(query, got, sources, llm, direct, done, hints) ==
    IF ~got.passed THEN NotInDocuments(got.searches)
    ELSE IF query_expects_topic_not_in_sources(query, sources, hints)
    THEN NotInDocuments(got.searches)
    ELSE IF ~llm.ok /\ ~direct
    THEN Raised(got.searches)
    ELSE Answered(done, sources, got.searches)

---------------------------------------------------------------------------
(* check_rate_limit and run_security_checks called one request after       *)
(* another                                                                 *)

Senders == {"s1", "s2"}

\* the sender the background senders are traffic around
MainSender == "s1"

\* the background senders make at most this many calls
MaxOtherCalls == 1

\* the values the clock takes
ClockValues == {0, 1, RATE_LIMIT_WINDOW + 1}

Hello == <<"h","i">>

Injection == <<" ","Y","o","u"," ","A","R","E"," ","n","o","w"," ","a","d","m","i","n","\n">>

Messages == <<Hello, Injection,
              Repeat("x", MAX_MESSAGE_LENGTH), Repeat("x", MAX_MESSAGE_LENGTH + 1)>>

\* sanitise_message of each of Messages, computed once
Sanitised == {<<m, sanitise_message(Messages[m])>> : m \in 1..Len(Messages)}

SanitisedOf(m) == (CHOOSE pair \in Sanitised : pair[1] = m)[2]

GateIdle ==
    /\ store = <<>>
    /\ now = 0
    /\ event = [op |-> "init"]
    /\ acceptedLog = [s \in Senders |-> <<>>]
    /\ lastRejected = [s \in Senders |-> -1]
    /\ otherCalls = 0

MayCall(s) == s = MainSender \/ otherCalls < MaxOtherCalls

Called(s) == IF s = MainSender THEN otherCalls ELSE otherCalls + 1

\* time passes
Tick(t) ==
    /\ t > now
    /\ now' = t
    /\ event' = [op |-> "tick"]
    /\ UNCHANGED <<store, acceptedLog, lastRejected, otherCalls>>

\* check_rate_limit(s)
Check(s) ==
    /\ MayCall(s)
    /\ store' = check_rate_limit(store, s, now).store
    /\ event' = [op |-> "check", sender |-> s,
                 passed |-> check_rate_limit(store, s, now).passed,
                 text |-> check_rate_limit(store, s, now).reason]
    /\ acceptedLog' = IF check_rate_limit(store, s, now).passed
                      THEN [acceptedLog EXCEPT ![s] = Append(@, now)]
                      ELSE acceptedLog
    /\ lastRejected' = IF check_rate_limit(store, s, now).passed
                       THEN lastRejected
                       ELSE [lastRejected EXCEPT ![s] = now]
    /\ otherCalls' = Called(s)
    /\ UNCHANGED now

\* run_security_checks(s, Messages[m], skip_rate_limit=skip)
Gate(s, m, skip) ==
    /\ MayCall(s)
    /\ LET r == run_security_checks(store, s, Messages[m], SanitisedOf(m), skip, now)
       IN  /\ store' = r.store
           /\ event' = [op |-> "gate", sender |-> s, message |-> m, skip |-> skip,
                        passed |-> r.passed, text |-> r.text,
                        rateChecked |-> r.rateChecked]
           /\ acceptedLog' = IF r.rateChecked /\ r.passed
                             THEN [acceptedLog EXCEPT ![s] = Append(@, now)]
                             ELSE acceptedLog
    /\ lastRejected' = IF check_rate_limit(store, s, now).passed
                       THEN lastRejected
                       ELSE [lastRejected EXCEPT ![s] = now]
    /\ otherCalls' = Called(s)
    /\ UNCHANGED now

Tasks == {"t1", "t2"}

\* the tasks begin at most this many calls
MaxTaskCalls == 3

TasksIdle ==
    /\ started = 0
    /\ tpc = [t \in Tasks |-> "idle"]
    /\ tphone = [t \in Tasks |-> "none"]
    /\ tnow = [t \in Tasks |-> 0]
    /\ tsize = [t \in Tasks |-> 0]
    /\ texpired = [t \in Tasks |-> {}]
    /\ tts = [t \in Tasks |-> <<>>]

SanitiseIdle ==
    /\ msgIn = <<>>
    /\ msgOut = [returned |-> FALSE]

ChunkIdle ==
    /\ CHUNK_SIZE = RAG_CHUNK_SIZE
    /\ CHUNK_OVERLAP = RAG_CHUNK_OVERLAP
    /\ ctext = <<>>
    /\ cwords = <<>>
    /\ cstart = 1
    /\ chunks = <<>>
    /\ cspans = <<>>
    /\ cpc = "done"

NoCall ==
    [title |-> <<>>, force |-> FALSE, text |-> <<>>, outcome |-> <<>>,
     already_indexed |-> FALSE, replaced |-> 0, result |-> "none", message |-> <<>>,
     loaded |-> FALSE, requested |-> 0]

IndexIdle ==
    /\ collection = {}
    /\ icall = NoCall

NoQuery == [query |-> <<>>, conversation_sources |-> <<>>, hints |-> TOPIC_REQUIRED_SOURCE_HINTS]

NoAnswers ==
    [first |-> <<>>, second |-> <<>>, sources |-> <<>>,
     llm |-> [ok |-> TRUE, text |-> <<>>], tool |-> [ok |-> TRUE, text |-> <<>>]]

QueryIdle ==
    /\ qpc = "done"
    /\ qin = NoQuery
    /\ qenv = NoAnswers
    /\ qout = NotInDocuments(0)

NoPost == [answer |-> <<>>]

PostIdle ==
    /\ ppc = "done"
    /\ pin = NoPost
    /\ ptext = <<>>

NoMessage == [from_number |-> "none"]

InboundIdle ==
    /\ hpc = "done"
    /\ hin = NoMessage
    /\ hdb = [users |-> {}, conversations |-> <<>>, safety_logs |-> <<>>]
    /\ hout = [returned |-> FALSE]

Callers == {"w1", "w2", "h1"}

\* None
NoInstance == 0

\* no one has called get_rag
SingletonIdle ==
    /\ rag_instance = NoInstance
    /\ built = 0
    /\ gcalls = 0
    /\ gpc = [c \in Callers |-> "idle"]
    /\ gnew = [c \in Callers |-> NoInstance]
    /\ ggot = [c \in Callers |-> NoInstance]

\* nothing but the calls a specification is about is under way
OthersIdle == PostIdle /\ InboundIdle

InitRate == GateIdle /\ TasksIdle /\ SanitiseIdle /\ ChunkIdle /\ IndexIdle /\ SingletonIdle /\ QueryIdle /\ OthersIdle

NextRate ==
    \/ \E t \in ClockValues : Tick(t) /\ UNCHANGED offGate
    \/ \E s \in Senders : Check(s) /\ UNCHANGED offGate

SpecRate == InitRate /\ [][NextRate]_vars

InitGate == GateIdle /\ TasksIdle /\ SanitiseIdle /\ ChunkIdle /\ IndexIdle /\ SingletonIdle /\ QueryIdle /\ OthersIdle

NextGate ==
    \/ Tick(RATE_LIMIT_WINDOW + 1) /\ UNCHANGED offGate
    \/ \E s \in Senders, m \in 1..Len(Messages), skip \in BOOLEAN :
          Gate(s, m, skip) /\ UNCHANGED offGate

---------------------------------------------------------------------------
(* sanitise_message on messages put together from pieces                   *)

Pieces == {
    <<>>,
    <<"y","o","u"," ","a","r","e"," ","n","o","w">>,
    <<"y","o","u"," ","a">>,
    <<"r","e"," ","n","o","w">>,
    <<"Y","O","U"," ","A","R","E"," ","N","O","W">>,
    <<"i","g","n","o","r","e"," ","p","r","e","v","i","o","u","s"," ","i","n","s","t","r","u","c">>,
    <<"t","i","o","n","s">>,
    <<"f","o","r","g","e","t"," ","e","v","e","r","y","t","h","i","n","g">>,
    <<"H","i"," ","t","h","e","r","e">>,
    <<" ">>, <<"\n">>, <<"\r">>, <<ESC>> }

\* a message is at most this many pieces
MaxPieces == 3

RECURSIVE Joined(_)
Joined(n) ==
    IF n = 0 THEN {<<>>}
    ELSE {a \o b : a \in Joined(n - 1), b \in Pieces}

SanitiseInputs == Joined(MaxPieces)

InitSanitise ==
    /\ GateIdle /\ TasksIdle /\ ChunkIdle /\ IndexIdle /\ SingletonIdle /\ QueryIdle /\ OthersIdle
    /\ msgIn \in SanitiseInputs
    /\ msgOut = [returned |-> FALSE]

\* sanitise_message(msgIn)
Sanitise ==
    /\ ~msgOut.returned
    /\ msgOut' = [returned |-> TRUE, text |-> sanitise_message(msgIn)]
    /\ UNCHANGED <<msgIn, offSanitise>>

NextSanitise == Sanitise

SpecSanitise == InitSanitise /\ [][NextSanitise]_vars

SpecGate == InitGate /\ [][NextGate]_vars

---------------------------------------------------------------------------
(* check_rate_limit run by the webhook's background threads: a thread may  *)
(* be switched out between any two accesses to the shared table            *)

\* the task leaves check_rate_limit
Leave(t) ==
    /\ tpc' = [tpc EXCEPT ![t] = "idle"]
    /\ tphone' = [tphone EXCEPT ![t] = "none"]
    /\ tnow' = [tnow EXCEPT ![t] = 0]
    /\ tsize' = [tsize EXCEPT ![t] = 0]
    /\ texpired' = [texpired EXCEPT ![t] = {}]
    /\ tts' = [tts EXCEPT ![t] = <<>>]
    /\ UNCHANGED <<started, offTasks>>

\* an exception leaves check_rate_limit
Raise(t, error) ==
    /\ event' = [op |-> "raise", sender |-> tphone[t], error |-> error]
    /\ Leave(t)
    /\ UNCHANGED <<store, now, acceptedLog, lastRejected, otherCalls>>

\* now = time.time(); the iteration over _rate_limit_store.items() begins
Begin(t, s) ==
    /\ tpc[t] = "idle"
    /\ started < MaxTaskCalls
    /\ started' = started + 1
    /\ tpc' = [tpc EXCEPT ![t] = "scan"]
    /\ tphone' = [tphone EXCEPT ![t] = s]
    /\ tnow' = [tnow EXCEPT ![t] = now]
    /\ tsize' = [tsize EXCEPT ![t] = Cardinality(DOMAIN store)]
    /\ UNCHANGED <<gateVars, offTasks, texpired, tts>>

\* the iteration ends: expired_keys is built, unless the table changed size
\* meanwhile (RuntimeError: dictionary changed size during iteration)
Scan(t) ==
    /\ tpc[t] = "scan"
    /\ IF Cardinality(DOMAIN store) # tsize[t]
       THEN Raise(t, "RuntimeError")
       ELSE /\ tpc' = [tpc EXCEPT ![t] = "del"]
            /\ texpired' = [texpired EXCEPT ![t] =
                               ExpiredKeys(store, tnow[t] - RATE_LIMIT_WINDOW)]
            /\ UNCHANGED <<gateVars, offTasks, started, tphone, tnow, tsize, tts>>

\* del _rate_limit_store[key] (KeyError when the key is gone)
Delete(t, key) ==
    /\ tpc[t] = "del"
    /\ key \in texpired[t]
    /\ IF key \notin DOMAIN store
       THEN Raise(t, "KeyError")
       ELSE /\ store' = [k \in DOMAIN store \ {key} |-> store[k]]
            /\ texpired' = [texpired EXCEPT ![t] = @ \ {key}]
            /\ UNCHANGED <<now, event, acceptedLog, lastRejected, otherCalls,
                           offTasks, started, tpc, tphone, tnow, tsize, tts>>

\* timestamps = _rate_limit_store.get(phone_number, []), filtered to the window
Fetch(t) ==
    /\ tpc[t] = "del"
    /\ texpired[t] = {}
    /\ tpc' = [tpc EXCEPT ![t] = "decide"]
    /\ tts' = [tts EXCEPT ![t] =
                  InWindow(Get(store, tphone[t]), tnow[t] - RATE_LIMIT_WINDOW)]
    /\ UNCHANGED <<gateVars, offTasks, started, tphone, tnow, tsize, texpired>>

\* the cap is tested; the request is rejected, or recorded and accepted
Decide(t) ==
    /\ tpc[t] = "decide"
    /\ IF OverLimit(tts[t])
       THEN /\ event' = [op |-> "check", sender |-> tphone[t], passed |-> FALSE,
                         text |-> RateLimitedText]
            /\ lastRejected' = [lastRejected EXCEPT ![tphone[t]] = tnow[t]]
            /\ UNCHANGED <<store, acceptedLog>>
       ELSE /\ store' = Put(store, tphone[t], Append(tts[t], tnow[t]))
            /\ event' = [op |-> "check", sender |-> tphone[t], passed |-> TRUE,
                         text |-> <<>>]
            /\ acceptedLog' = [acceptedLog EXCEPT ![tphone[t]] = Append(@, tnow[t])]
            /\ UNCHANGED lastRejected
    /\ Leave(t)
    /\ UNCHANGED <<now, otherCalls>>

\* the table after n requests of MainSender were accepted at clock 0
Served(n) ==
    /\ store = IF n = 0 THEN <<>> ELSE [s \in {MainSender} |-> Repeat(0, n)]
    /\ now = 0
    /\ event = [op |-> "init"]
    /\ acceptedLog = [s \in Senders |-> IF s = MainSender THEN Repeat(0, n) ELSE <<>>]
    /\ lastRejected = [s \in Senders |-> -1]
    /\ otherCalls = 0

\* the tasks start on an empty table, or on one a request short of the cap
InitTasks ==
    /\ \E n \in {0, MAX_REQUESTS_PER_HOUR - 1} : Served(n)
    /\ TasksIdle
    /\ SanitiseIdle
    /\ ChunkIdle
    /\ IndexIdle /\ SingletonIdle
    /\ QueryIdle
    /\ OthersIdle

NextTasks ==
    \/ \E t \in ClockValues : Tick(t) /\ UNCHANGED offGate
    \/ \E t \in Tasks, s \in Senders : Begin(t, s)
    \/ \E t \in Tasks : Scan(t)
    \/ \E t \in Tasks, key \in Senders : Delete(t, key)
    \/ \E t \in Tasks : Fetch(t)
    \/ \E t \in Tasks : Decide(t)

SpecTasks == InitTasks /\ [][NextTasks]_vars

---------------------------------------------------------------------------
(* chunk_text, one round of its outer loop at a time                       *)

TextChars == {"a", " "}

\* a text is at most this many characters
MaxTextLen == 9

\* the chunk size is at most this
MaxChunkSize == 6

RECURSIVE TextsOfLen(_)
TextsOfLen(n) ==
    IF n = 0 THEN {<<>>}
    ELSE {Append(t, c) : t \in TextsOfLen(n - 1), c \in TextChars}

Texts == UNION {TextsOfLen(n) : n \in 0..MaxTextLen}

\* chunk_text(text) is entered: words = text.split(), chunks = [], start = 0
InitChunk ==
    /\ GateIdle /\ TasksIdle /\ SanitiseIdle /\ IndexIdle /\ SingletonIdle /\ QueryIdle /\ OthersIdle
    /\ CHUNK_SIZE \in 1..MaxChunkSize
    /\ CHUNK_OVERLAP \in 0..(CHUNK_SIZE - 1)
    /\ ctext \in Texts
    /\ cwords = Split(ctext)
    /\ cstart = 1
    /\ chunks = <<>>
    /\ cspans = <<>>
    /\ cpc = "loop"

\* one round of `while start < len(words)`
ChunkLoop ==
    /\ cpc = "loop"
    /\ cstart <= Len(cwords)
    /\ chunks' = Append(chunks, ChunkRound(cwords, cstart, CHUNK_SIZE, CHUNK_OVERLAP).chunk)
    /\ cspans' = Append(cspans, <<cstart, ChunkRound(cwords, cstart, CHUNK_SIZE, CHUNK_OVERLAP).i>>)
    /\ cstart' = ChunkRound(cwords, cstart, CHUNK_SIZE, CHUNK_OVERLAP).start
    /\ UNCHANGED <<CHUNK_SIZE, CHUNK_OVERLAP, ctext, cwords, cpc, offChunk>>

\* return chunks
ChunkReturn ==
    /\ cpc = "loop"
    /\ cstart > Len(cwords)
    /\ cpc' = "done"
    /\ UNCHANGED <<CHUNK_SIZE, CHUNK_OVERLAP, ctext, cwords, cstart, chunks, cspans, offChunk>>

NextChunk == ChunkLoop \/ ChunkReturn

\* a call that has begun runs on: nothing else can stop it
SpecChunk == InitChunk /\ [][NextChunk]_vars /\ WF_vars(NextChunk)

---------------------------------------------------------------------------
(* add_document called again and again on the documents of the library     *)

Titles == {<<"a">>, <<"b">>}

\* what load_document may find in a document's file
DocTexts == {<<>>, <<"a">>, <<"a"," ","b">>}

\* what get_embedding does with one chunk
Outcomes == {[ok |-> TRUE, error |-> <<>>]} \cup {[ok |-> FALSE, error |-> e] : e \in ErrorTexts}

\* document.file.path
PathOf(title) == <<"/">> \o title

\* chunk_text of each of these texts under the configured size and overlap
Chunked == {<<text, chunk_text(text, RAG_CHUNK_SIZE, RAG_CHUNK_OVERLAP)>> : text \in DocTexts}

ChunksOf(text) == (CHOOSE pair \in Chunked : pair[1] = text)[2]

InitIndex == GateIdle /\ TasksIdle /\ SanitiseIdle /\ ChunkIdle /\ IndexIdle /\ SingletonIdle /\ QueryIdle /\ OthersIdle

\* rag.add_document(document.file.path, document.title, force)
AddDocument(title, force, text, outcome) ==
    \E done \in {add_document(collection, PathOf(title), title, force, ChunksOf(text), outcome)} :
        /\ collection' = done.collection
        /\ icall' =
              [title |-> title,
               force |-> force,
               text |-> IF done.loaded THEN text ELSE <<>>,
               outcome |-> IF done.loaded THEN outcome ELSE <<>>,
               already_indexed |-> is_document_indexed(collection, title),
               replaced |-> IF force THEN Cardinality({r \in collection : r.source = title}) ELSE 0,
               result |-> done.result,
               message |-> done.message,
               loaded |-> done.loaded,
               requested |-> done.requested]
        /\ UNCHANGED offIndex

NextIndex ==
    \E title \in Titles, force \in BOOLEAN, text \in DocTexts :
        \E outcome \in [1..Len(ChunksOf(text)) -> Outcomes] :
            AddDocument(title, force, text, outcome)

SpecIndex == InitIndex /\ [][NextIndex]_vars

---------------------------------------------------------------------------
(* process_safety_query called on a question                               *)

Queries == {<<"i","s"," ","i","t"," ","s","a","f","e">>,
            <<"s","h","o","w"," ","m","e"," ","g","l","o","v","e","s">>,
            <<"h","o","w"," ","t","o"," ","l","i","f","t"," ","a","n","d"," ","c","a","r","r","y">>}

MANUAL == <<"M","a","n","u","a","l">>

RULES == <<"R","u","l","e","s">>

Passages == [source : {MANUAL, RULES}, distance : {30, 60, NoDistance}]

\* rag.search answers at most this many passages
MaxPassages == 2

RECURSIVE AnswersOfLen(_)
AnswersOfLen(n) ==
    IF n = 0 THEN {<<>>}
    ELSE {Append(a, c) : a \in AnswersOfLen(n - 1), c \in Passages}

SearchAnswers == UNION {AnswersOfLen(n) : n \in 0..MaxPassages}

\* a rule set for TOPIC_REQUIRED_SOURCE_HINTS: each rule is its keywords and
\* the hints one of which a source title must hold
LIFT_RULE == <<<<<<"l","i","f","t">>>>, <<<<"m","a","n","u","a","l">>>>>>

GLOVES_RULE ==
    <<<<<<"g","l","o","v","e","s">>, <<"h","e","l","m","e","t">>>>,
      <<<<"p","p","e">>, <<"r","u","l","e","s">>>>>>

\* a rule whose hint holds a blank
CARRY_RULE == <<<<<<"c","a","r","r","y">>>>, <<<<"l"," ","r">>>>>>

\* what the settings may give as TOPIC_REQUIRED_SOURCE_HINTS: the default and
\* a set of three rules
TopicSettings == {TOPIC_REQUIRED_SOURCE_HINTS, <<LIFT_RULE, GLOVES_RULE, CARRY_RULE>>}

\* the orders list(set(..)) may give the titles in
Orders(titles) ==
    {order \in UNION {[1..n -> titles] : n \in {Cardinality(titles)}} :
        {order[i] : i \in 1..Len(order)} = titles}

ADVICE == <<"W","e","a","r"," ","g","l","o","v","e","s","."," ">>

BOLD_ADVICE == <<"*","*","W","e","a","r","*","*"," ","*","*","*","g","l","o","v","e","s","*","*","*",".">>

SOURCE_LINE == <<"\n","*","S","o","u","r","c","e",":","*"," ","M","a","n","u","a","l">>

LONG_SOURCE_LINE ==
    <<"\n","*","S","o","u","r","c","e","s",":","*"," ","S","i","t","e"," ","S","a","f","e","t","y"," ","M","a","n","u","a","l"," ","2","0","2","4",","," ","W","o","r","k","i","n","g"," ","a","t"," ","H","e","i","g","h","t"," ","P","r","o","c","e","d","u","r","e",","," ">>
    \o <<"C","h","e","m","i","c","a","l"," ","H","a","n","d","l","i","n","g"," ","R","u","l","e","s",","," ","E","m","e","r","g","e","n","c","y"," ","R","e","s","p","o","n","s","e"," ","P","l","a","n">>

MARKER_LINE ==
    <<"\n","S","A","F","E","G","U","A","R","D","_","I","M","A","G","E","_","U","R","L",":">> \o DALLE_HOST \o <<"a",".","p","n","g",".">>

LINK_LINES ==
    <<"\n","V","i","e","w"," ","H","e","r","e",":"," ","h","t","t","p","s",":","/","/","x",".","i","o","/","a","\n","N","o","t","e",":"," ","T","h","i","s"," ","l","i","n","k"," ","e","x","p","i","r","e","s"," ","s","o","o","n","\n","\n","\n","\n","!","[","i","m","g","]","("," ",")"," "," ","(","h","t","t","p",":","/","/","x",".","i","o","/","b",")">>

REFUSAL == <<"S","o","r","r","y",","," ","t","h","a","t"," ","i","s"," ","n","o","t"," ","i","n"," ","o","u","r"," ","s","a","f","e","t","y"," ","d","o","c","u","m","e","n","t","s",".">>

LONG_SENTENCE == <<"W","e","a","r"," ">> \o Repeat("x", 290) \o <<"."," ">>

RECURSIVE Times(_, _)
Times(s, n) == IF n = 0 THEN <<>> ELSE s \o Times(s, n - 1)

\* what the language model may write
SynthOutputs == {
    ADVICE,
    <<>>,
    BOLD_ADVICE \o SOURCE_LINE,
    NOT_IN_DOCUMENTS_MESSAGE,
    NOT_IN_DOCUMENTS_MESSAGE \o SOURCE_LINE,
    NOT_IN_DOCUMENTS_MESSAGE \o LONG_SOURCE_LINE,
    REFUSAL,
    ADVICE \o MARKER_LINE \o LINK_LINES,
    NOT_IN_DOCUMENTS_MESSAGE \o MARKER_LINE,
    Times(LONG_SENTENCE, 5),
    Repeat("x", 1500) }

\* what the language model may do
LlmOutcomes == {[ok |-> TRUE, text |-> t] : t \in SynthOutputs} \cup {[ok |-> FALSE, text |-> <<>>]}

TOOL_SUCCESS ==
    <<"S","a","f","e","t","y"," ","i","m","a","g","e"," ","g","e","n","e","r","a","t","e","d"," ","s","u","c","c","e","s","s","f","u","l","l","y",".","\n","S","A","F","E","G","U","A","R","D","_","I","M","A","G","E","_","U","R","L",":","h","t","t","p","s",":","/","/","i","m","g",".","i","o","/","b",".","p","n","g">>

TOOL_ERROR ==
    <<"T","O","O","L"," ","E","R","R","O","R",":"," ","I","m","a","g","e"," ","g","e","n","e","r","a","t","i","o","n"," ","f","a","i","l","e","d","."," ">>
    \o <<"P","r","o","v","i","d","e"," ","t","h","e"," ","s","a","f","e","t","y"," ","i","n","f","o","r","m","a","t","i","o","n"," ","a","s"," ","t","e","x","t"," ","i","n","s","t","e","a","d",".">>

\* what safety_image_tool.run may do
ToolOutcomes ==
    {[ok |-> TRUE, text |-> TOOL_SUCCESS], [ok |-> TRUE, text |-> TOOL_ERROR],
     [ok |-> FALSE, text |-> <<>>]}

\* PostProcess of each answer the strategies may hand on
PostProcessed ==
    {<<direct, llm, asked, tool, PostProcess(Synthesised(direct, llm), asked, tool)>> :
        direct \in BOOLEAN, llm \in LlmOutcomes, asked \in BOOLEAN,
        tool \in ToolOutcomes \cup {NoAnswers.tool}}

PostProcessedOf(direct, llm, asked, tool) ==
    (CHOOSE row \in PostProcessed :
        row[1] = direct /\ row[3] = asked /\ row[4].ok = tool.ok /\ row[2].ok = llm.ok
        /\ row[4] = tool /\ row[2] = llm)[5]

InitQuery ==
    /\ GateIdle /\ TasksIdle /\ SanitiseIdle /\ ChunkIdle /\ IndexIdle /\ SingletonIdle /\ OthersIdle
    /\ qpc = "called"
    /\ qin \in [query : Queries, conversation_sources : {<<>>, <<MANUAL>>},
                hints : TopicSettings]
    /\ qenv = NoAnswers
    /\ qout = NotInDocuments(0)

\* what process_safety_query works out of each query
QueryFacts ==
    {[query |-> q,
      direct |-> analyze_query_complexity(q) = "simple" /\ ~user_asked_for_image(q),
      asked |-> user_asked_for_image(q)] : q \in Queries}

\* the single call is made, not the researcher and the formatter
Direct(query) == (CHOOSE f \in QueryFacts : f.query = query).direct

\* _user_asked_for_image(query)
Asked(query) == (CHOOSE f \in QueryFacts : f.query = query).asked

\* a second search is made
Retries(conversation_sources, first) ==
    Retrieved(conversation_sources, first, <<>>).searches = 2

\* the language model is called
Synthesises(query, got, sources, hints) ==
    got.passed /\ ~query_expects_topic_not_in_sources(query, sources, hints)

\* safety_image_tool.run is called
Generates(query, llm) ==
    (llm.ok \/ Direct(query))
    /\ PostProcessedOf(Direct(query), llm, Asked(query), NoAnswers.tool).image_calls = 1

\* process_safety_query(query, conversation_sources) from entry to return
Query(got, first, second, sources, llm, tool) ==
    /\ qpc = "called"
    /\ qpc' = "done"
    /\ qout' = process_safety_query(qin.query, got, sources, llm, Direct(qin.query),
                                    PostProcessedOf(Direct(qin.query), llm,
                                                    Asked(qin.query), tool),
                                    qin.hints)
    /\ qenv' = [first |-> first, second |-> second, sources |-> sources,
                llm |-> llm, tool |-> tool]
    /\ UNCHANGED <<qin, offQuery>>

\* what is not called answers nothing
NextQuery ==
    /\ qpc = "called"
    /\ \E first \in SearchAnswers :
      \E second \in IF Retries(qin.conversation_sources, first)
                    THEN SearchAnswers ELSE {NoAnswers.second} :
        \E got \in {Retrieved(qin.conversation_sources, first, second)} :
          \E sources \in Orders(SourceSet(got.rag_results)) :
            \E llm \in IF Synthesises(qin.query, got, sources, qin.hints)
                       THEN LlmOutcomes ELSE {NoAnswers.llm} :
              \E tool \in IF Synthesises(qin.query, got, sources, qin.hints) /\ Generates(qin.query, llm)
                          THEN ToolOutcomes ELSE {NoAnswers.tool} :
                Query(got, first, second, sources, llm, tool)

SpecQuery == InitQuery /\ [][NextQuery]_vars

---------------------------------------------------------------------------
(* process_safety_query from the hard limit on, and the sending of its     *)
(* answer                                                                  *)

\* message[: max_len - 3].rsplit(' ', 1)[0], max_len being 3 at least
CutAtLastSpace(message, max_len) ==
    IF RFind(message, <<" ">>, max_len - 3) # 0
    THEN SubSeq(message, 1, RFind(message, <<" ">>, max_len - 3) - 1)
    ELSE SubSeq(message, 1, Min({max_len - 3, Len(message)}))

\* if not message.endswith(('.', '!', '?')): message += '.'
EndedWithStop(message) ==
    IF message # <<>> /\ message[Len(message)] \in {".", "!", "?"}
    THEN message ELSE Append(message, ".")

\* the message send_whatsapp_message hands to the gateway
Outgoing(message, max_len) ==
    IF Len(message) > max_len THEN EndedWithStop(CutAtLastSpace(message, max_len))
    ELSE message

\* the characters of the answers
BodyChars == {"a", ".", "!", " ", "\n"}

\* the answers drawn from BodyChars have at most this many characters
MaxBodyLen == 5

RECURSIVE BodiesOfLen(_)
BodiesOfLen(n) ==
    IF n = 0 THEN {<<>>}
    ELSE {Append(t, c) : t \in BodiesOfLen(n - 1), c \in BodyChars}

LONG_BODY == <<"a","a",".","a"," ","a","a","!"," ","a","\n","a","a","a"," ","a","a",".","a","a"," ","a","a">>

UNBROKEN_BODY == Repeat("a", 22)

\* the answers that reach the hard limit: they have been stripped
Bodies ==
    {t \in UNION {BodiesOfLen(n) : n \in 0..MaxBodyLen} : Strip(t) = t}
    \cup {LONG_BODY, UNBROKEN_BODY}

\* the values of MAX_WHATSAPP_MESSAGE_LENGTH the answers are cut to
LimitValues == {3, 4, 20}

\* the titles and the classifier's omit_sources
Attributions ==
    {[sources |-> <<>>, omit_sources |-> FALSE],
     [sources |-> <<<<"M">>>>, omit_sources |-> FALSE],
     [sources |-> <<<<"M">>, <<"R">>>>, omit_sources |-> FALSE],
     [sources |-> <<<<"M">>>>, omit_sources |-> TRUE]}

InitLimit ==
    /\ GateIdle /\ TasksIdle /\ SanitiseIdle /\ ChunkIdle /\ IndexIdle /\ SingletonIdle /\ QueryIdle
    /\ InboundIdle
    /\ ppc = "limit"
    /\ \E answer \in Bodies, max_len \in LimitValues, attribution \in Attributions :
           pin = [answer |-> answer, max_len |-> max_len,
                  sources |-> attribution.sources,
                  omit_sources |-> attribution.omit_sources,
                  body |-> <<>>]
    /\ ptext = pin.answer

\* lines 498-513 of process_safety_query
HardLimit ==
    /\ ppc = "limit"
    /\ ptext' = Truncate(ptext, pin.max_len)
    /\ pin' = [pin EXCEPT !.body = ptext']
    /\ ppc' = "attribute"
    /\ UNCHANGED offPost

\* lines 515-516 of process_safety_query
Attribute ==
    /\ ppc = "attribute"
    /\ ptext' = Attributed(ptext, pin.sources, pin.omit_sources)
    /\ ppc' = "send"
    /\ UNCHANGED <<pin, offPost>>

\* send_whatsapp_message on the answer process_incoming_message returned
Send ==
    /\ ppc = "send"
    /\ ptext' = Outgoing(ptext, pin.max_len)
    /\ ppc' = "done"
    /\ UNCHANGED <<pin, offPost>>

NextLimit == HardLimit \/ Attribute \/ Send

SpecLimit == InitLimit /\ [][NextLimit]_vars

---------------------------------------------------------------------------
(* process_safety_query: the loop that brings '**' down to '*'             *)

\* the loop is never entered
NeverDoubled(answer) == FALSE

\* '**' in answer
HasDoubledMarker(answer) == Contains(answer, <<"*","*">>)

\* answer.count('*') % 2 != 0
OddMarkers(answer) == Cardinality({i \in 1..Len(answer) : answer[i] = "*"}) % 2 # 0

\* the characters of the answers the loop is given
StarChars == {"*", "a", " "}

\* the answers the loop is given have at most this many characters
MaxStarLen == 7

RECURSIVE StarTextsOfLen(_)
StarTextsOfLen(n) ==
    IF n = 0 THEN {<<>>}
    ELSE {Append(t, c) : t \in StarTextsOfLen(n - 1), c \in StarChars}

StarTexts == UNION {StarTextsOfLen(n) : n \in 0..MaxStarLen}

InitBold ==
    /\ GateIdle /\ TasksIdle /\ SanitiseIdle /\ ChunkIdle /\ IndexIdle /\ SingletonIdle /\ QueryIdle
    /\ InboundIdle
    /\ ppc = "bold"
    /\ \E answer \in StarTexts : pin = [answer |-> answer, rounds |-> 0, warned |-> FALSE]
    /\ ptext = pin.answer

\* one round of `while '**' in answer: answer = answer.replace('**', '*')`
BoldRound ==
    /\ ppc = "bold"
    /\ HasDoubledMarker(ptext)
    /\ ptext' = Replace(ptext, <<"*","*">>, <<"*">>)
    /\ pin' = [pin EXCEPT !.rounds = @ + 1]
    /\ UNCHANGED <<ppc, offPost>>

\* the loop is left; an odd count of '*' is logged
BoldExit ==
    /\ ppc = "bold"
    /\ ~HasDoubledMarker(ptext)
    /\ pin' = [pin EXCEPT !.warned = OddMarkers(ptext)]
    /\ ppc' = "classify"
    /\ UNCHANGED <<ptext, offPost>>

NextBold == BoldRound \/ BoldExit

SpecBold == InitBold /\ [][NextBold]_vars /\ WF_vars(NextBold)

---------------------------------------------------------------------------
(* process_safety_query from the image URL on                              *)

\* what the answers that reach the image extraction are put together from
ImagePieces ==
    {HTTPS, <<"x">>, <<"\n","\n">>, <<" ">>, <<"!","[","]","(",")">>,
     <<"S","A","F","E","G","U","A","R","D","_","I","M","A","G","E","_">>,
     <<"U","R","L",":">>}

\* an answer is put together from at most this many pieces
MaxImagePieces == 4

RECURSIVE ImageTextsOfLen(_)
ImageTextsOfLen(n) ==
    IF n = 0 THEN {<<>>}
    ELSE {t \o piece : t \in ImageTextsOfLen(n - 1), piece \in ImagePieces}

\* the answers that reach the image extraction: line 470 has stripped them
ImageTexts == {t \in UNION {ImageTextsOfLen(n) : n \in 0..MaxImagePieces} : Strip(t) = t}

PLAIN_QUERY == <<"i","s"," ","i","t"," ","s","a","f","e">>

\* queries that hold a trigger phrase: one with words after the phrase, one
\* with none, and one whose words are more than a description may hold
ImageQueries ==
    {<<"s","h","o","w"," ","m","e"," ","g","l","o","v","e","s">>,
     <<"S","h","o","w"," ","m","e">>,
     <<"d","r","a","w"," ","a"," ","p","i","c","t","u","r","e"," ","o","f"," ","t","h","e"," ">> \o Repeat("x", IMAGE_DESCRIPTION_MAX_LENGTH - 4)
         \o <<" ","a","n","d"," ","a"," ","h","e","l","m","e","t">>}

\* _description_for_image of each of ImageQueries, computed once
Descriptions == {<<query, description_for_image(query)>> : query \in ImageQueries}

\* the query, whether the user asked for an image, and what
\* safety_image_tool.run does if it is called
ImageRequests ==
    {[query |-> PLAIN_QUERY, asked |-> FALSE, tool |-> NoAnswers.tool]}
    \cup {[query |-> query, asked |-> TRUE, tool |-> tool] :
              query \in ImageQueries, tool \in ToolOutcomes}

InitImage ==
    /\ GateIdle /\ TasksIdle /\ SanitiseIdle /\ ChunkIdle /\ IndexIdle /\ SingletonIdle /\ QueryIdle
    /\ InboundIdle
    /\ ppc = "image"
    /\ \E answer \in ImageTexts, request \in ImageRequests :
           pin = [answer |-> answer, query |-> request.query, asked |-> request.asked,
                  tool |-> request.tool,
                  image_url |-> <<>>, image_calls |-> 0, description |-> <<>>,
                  max_len |-> MAX_WHATSAPP_MESSAGE_LENGTH,
                  sources |-> <<MANUAL>>, omit_sources |-> FALSE, body |-> <<>>]
    /\ ptext = pin.answer

\* no image is generated of the handler's own accord
GeneratesNever(asked, found) == FALSE

\* if _user_asked_for_image(query) and not image_url:
GeneratesFallback(asked, found) == asked /\ found = <<>>

\* lines 472-485 of process_safety_query
ExtractImage ==
    /\ ppc = "image"
    /\ \E found \in {extract_image_url(ptext)} :
           pin' = [pin EXCEPT
                     !.image_url = IF ~GeneratesFallback(pin.asked, found) THEN found
                                   ELSE IF pin.tool.ok
                                        THEN extract_image_url(pin.tool.text) ELSE <<>>,
                     !.image_calls = IF GeneratesFallback(pin.asked, found) THEN 1 ELSE 0,
                     !.description = IF GeneratesFallback(pin.asked, found)
                                     THEN (CHOOSE row \in Descriptions : row[1] = pin.query)[2]
                                     ELSE <<>>]
    /\ ppc' = "clean"
    /\ UNCHANGED <<ptext, offPost>>

\* lines 487-496 of process_safety_query
Clean ==
    /\ ppc = "clean"
    /\ ptext' = IF pin.image_url # <<>> THEN CleanImageAnswer(ptext) ELSE ptext
    /\ ppc' = "limit"
    /\ UNCHANGED <<pin, offPost>>

NextImage == ExtractImage \/ Clean \/ HardLimit \/ Attribute

SpecImage == InitImage /\ [][NextImage]_vars

---------------------------------------------------------------------------
(* safety/whatsapp_integration.py: the handler of an incoming message      *)

\* the keys of _BUILTIN_RESPONSE_CACHE (RESPONSE_CACHE_PATH is not set)
RESPONSE_CACHE_KEYS ==
    <<<<"h","e","l","l","o">>,
      <<"h","i">>,
      <<"h","e","y">>,
      <<"g","o","o","d"," ","m","o","r","n","i","n","g">>,
      <<"g","o","o","d"," ","a","f","t","e","r","n","o","o","n">>,
      <<"g","o","o","d"," ","e","v","e","n","i","n","g">>,
      <<"h","o","w"," ","a","r","e"," ","y","o","u">>,
      <<"w","h","a","t"," ","c","a","n"," ","y","o","u"," ","d","o">>,
      <<"w","h","a","t"," ","d","o"," ","y","o","u"," ","d","o">>,
      <<"w","h","o"," ","a","r","e"," ","y","o","u">>,
      <<"w","h","a","t"," ","k","i","n","d"," ","o","f"," ","t","h","i","n","g","s"," ","c","a","n"," ","y","o","u"," ","h","e","l","p"," ","w","i","t","h">>,
      <<"r","e","a","d","y"," ","t","o"," ","a","s","k">>,
      <<"c","a","n"," ","i"," ","a","s","k"," ","y","o","u"," ","a"," ","s","p","e","c","i","f","i","c"," ","q","u","e","s","t","i","o","n">>,
      <<"t","h","a","n","k"," ","y","o","u">>,
      <<"t","h","a","n","k","s">>,
      <<"t","h","a","n","k"," ","y","o","u"," ","s","o"," ","m","u","c","h">>,
      <<"a","p","p","r","e","c","i","a","t","e"," ","i","t">>,
      <<"g","r","e","a","t">>,
      <<"a","w","e","s","o","m","e">>,
      <<"p","e","r","f","e","c","t">>,
      <<"o","k">>,
      <<"o","k","a","y">>,
      <<"g","o","t"," ","i","t">>,
      <<"t","h","a","t","'","s"," ","a","l","l"," ","i"," ","n","e","e","d","e","d",","," ","t","h","a","n","k","s">>,
      <<"t","h","a","n","k","s",","," ","t","h","a","t"," ","w","a","s"," ","h","e","l","p","f","u","l">>,
      <<"u","n","d","e","r","s","t","o","o","d">>,
      <<"b","y","e">>,
      <<"t","h","a","t","'","s"," ","a","l","l"," ","f","o","r"," ","n","o","w",","," ","b","y","e">>,
      <<"t","a","k","e"," ","c","a","r","e">>,
      <<"g","o","o","d","b","y","e">>,
      <<"g","o","o","d"," ","n","i","g","h","t">>>>
\* _get_safety_keywords() with SAFETY_KEYWORDS not set
SAFETY_KEYWORDS ==
    <<<<"s","a","f","e","t","y">>,
      <<"h","a","z","a","r","d">>,
      <<"p","r","o","c","e","d","u","r","e">>,
      <<"s","t","e","p","s">>,
      <<"r","e","q","u","i","r","e","d">>,
      <<"e","m","e","r","g","e","n","c","y">>,
      <<"e","q","u","i","p","m","e","n","t">>,
      <<"i","n","s","p","e","c","t","i","o","n">>,
      <<"p","e","r","m","i","t">>,
      <<"c","o","m","p","l","i","a","n","c","e">>,
      <<"r","e","g","u","l","a","t","i","o","n">>,
      <<"p","p","e">>,
      <<"g","l","o","v","e","s">>,
      <<"v","o","l","t","a","g","e">>,
      <<"e","l","e","c","t","r","i","c","a","l">>,
      <<"l","o","c","k","o","u","t">>,
      <<"t","a","g","o","u","t">>,
      <<"l","o","t","o">>,
      <<"c","o","n","f","i","n","e","d"," ","s","p","a","c","e">>,
      <<"a","r","c"," ","f","l","a","s","h">>,
      <<"i","n","j","u","r","y">>,
      <<"t","e","s","t","i","n","g">>,
      <<"r","e","s","c","u","e">>,
      <<"a","t","m","o","s","p","h","e","r","i","c">>,
      <<"b","o","u","n","d","a","r","y">>,
      <<"d","o","c","u","m","e","n","t">>,
      <<"p","o","l","i","c","y">>,
      <<"c","o","n","t","r","o","l">>>>
\* _get_general_keywords()
GENERAL_KEYWORDS ==
    RESPONSE_CACHE_KEYS \o
    <<<<"h","e","l","p">>,
      <<"s","t","a","r","t">>,
      <<"w","e","l","l"," ","d","o","n","e">>,
      <<"g","o","o","d"," ","j","o","b">>,
      <<"w","h","a","t"," ","c","a","n"," ","y","o","u"," ","h","e","l","p">>,
      <<"h","o","w"," ","c","a","n"," ","y","o","u"," ","h","e","l","p">>>>

\* settings.SAFEGUARDAI['CONVERSATION_CONTEXT_MINUTES']
CONVERSATION_CONTEXT_MINUTES == 10

\* the longest message the follow-up override re-routes
FOLLOW_UP_MAX_LENGTH == 120

ERROR_RESPONSE ==
    <<"U","n","a","b","l","e"," ","t","o"," ","p","r","o","c","e","s","s"," ","y","o","u","r"," ","r","e","q","u","e","s","t"," ","a","t"," ","t","h","e"," ","m","o","m","e","n","t",".","\n","P","l","e","a","s","e"," ","t","r","y"," ","a","g","a","i","n"," ","o","r"," ","c","o","n","t","a","c","t"," ","y","o","u","r"," ","H","S","E"," ","o","f","f","i","c","e","r"," ","d","i","r","e","c","t","l","y",".">>

EMPTY_RESPONSE ==
    <<"P","l","e","a","s","e"," ","s","e","n","d"," ","a"," ","s","h","o","r","t"," ","s","a","f","e","t","y"," ","q","u","e","s","t","i","o","n"," ","o","r"," ","g","r","e","e","t","i","n","g",".">>

\* text in _get_response_cache()
InCache(text) == \E i \in 1..Len(RESPONSE_CACHE_KEYS) : RESPONSE_CACHE_KEYS[i] = text

classify_message(message) ==
    IF InCache(Strip(Lower(message))) THEN "cached"
    ELSE IF AnyIn(SAFETY_KEYWORDS, Strip(Lower(message))) THEN "safety"
    ELSE IF AnyIn(GENERAL_KEYWORDS, Strip(Lower(message))) THEN "general"
    ELSE IF Len(Split(Strip(Lower(message)))) <= 3 THEN "general"
    ELSE "safety"

\* msg_normalized in _get_response_cache()
IsGeneralIntro(message_body) ==
    InCache(Strip(RStripChars(Strip(Lower(message_body)), {"?"})))

\* the rows SafetyLog.objects.filter(user=user, timestamp__gte=since) selects
RecentLogs(db, user, t) ==
    {i \in 1..Len(db.safety_logs) :
        /\ db.safety_logs[i].user = user
        /\ db.safety_logs[i].timestamp >= t - CONVERSATION_CONTEXT_MINUTES * 60}

NoLog == [user |-> "none", timestamp |-> 0, sources |-> <<>>]

\* .order_by('-timestamp').first()
RecentLog(db, user, t) ==
    IF RecentLogs(db, user, t) = {} THEN NoLog
    ELSE db.safety_logs[CHOOSE i \in RecentLogs(db, user, t) :
             \A j \in RecentLogs(db, user, t) :
                 \/ db.safety_logs[j].timestamp < db.safety_logs[i].timestamp
                 \/ (db.safety_logs[j].timestamp = db.safety_logs[i].timestamp /\ j >= i)]

\* the condition of the follow-up override
FollowUp(recent_log, message_body) ==
    /\ recent_log # NoLog
    /\ Contains(message_body, <<"?">>)
    /\ Len(Strip(message_body)) <= FOLLOW_UP_MAX_LENGTH
    /\ ~IsGeneralIntro(message_body)

RECURSIVE SplitOn(_, _)
\* str.split(sep) for a separator of one character
SplitOn(s, sep) ==
    IF \A i \in 1..Len(s) : s[i] # sep THEN <<s>>
    ELSE <<SubSeq(s, 1, (CHOOSE i \in 1..Len(s) : s[i] = sep /\ \A j \in 1..(i - 1) : s[j] # sep) - 1)>>
         \o SplitOn(SubSeq(s, (CHOOSE i \in 1..Len(s) : s[i] = sep /\ \A j \in 1..(i - 1) : s[j] # sep) + 1, Len(s)), sep)

\* [s.strip() for s in recent_log.sources.split(',') if s.strip()]
ConversationSources(recent_log) ==
    IF recent_log = NoLog \/ recent_log.sources = <<>> THEN <<>>
    ELSE SelectSeq([i \in 1..Len(SplitOn(recent_log.sources, ",")) |->
                       Strip(SplitOn(recent_log.sources, ",")[i])],
                   LAMBDA s : s # <<>>)

\* sources_str, cut to the 500 characters of the column
SourcesStr(sources) ==
    IF Len(JoinWith(sources, <<",", " ">>)) > 500
    THEN SubSeq(JoinWith(sources, <<",", " ">>), 1, 497) \o <<".", ".", ".">>
    ELSE JoinWith(sources, <<",", " ">>)

\* a reply of the handler that is a text of its own
Reply(text) == [kind |-> "text", text |-> text]

\* a row of Conversation
ConversationRow(user, message, response, image_url) ==
    [user |-> user, message |-> message, response |-> response,
     response_included_image |-> image_url # <<>>]

\* a row of SafetyLog
SafetyLogRow(user, message_body, sources, t) ==
    [user |-> user, timestamp |-> t, sources |-> SourcesStr(sources)]

\* where the body of the try statement stood when it returned or raised
Result(raised, path, response, image_url, db, st, message_body, classified, conversation_sources) ==
    [raised |-> raised, failed |-> raised, path |-> path, response |-> response,
     image_url |-> image_url, db |-> db, store |-> st, message_body |-> message_body,
     classified |-> classified, conversation_sources |-> conversation_sources]

\* Conversation.objects.create(...) and the return
Finish(db, st, user, message_body, path, response_text, image_url, classified, conversation_sources, env) ==
    IF env.fails = "conversation"
    THEN Result(TRUE, path, Reply(<<>>), <<>>, db, st, message_body, classified, conversation_sources)
    ELSE Result(FALSE, path, Reply(response_text), image_url,
                [db EXCEPT !.conversations =
                    Append(@, ConversationRow(user, message_body, Reply(response_text), image_url))],
                st, message_body, classified, conversation_sources)

\* if message_type == 'safety':
SafetyBranch(db, st, user, message_body, classified, recent_log, t, env) ==
    IF env.safety.raised \/ env.fails = "safety_log"
    THEN Result(TRUE, "safety", Reply(<<>>), <<>>, db, st, message_body, classified,
                ConversationSources(recent_log))
    ELSE Finish([db EXCEPT !.safety_logs =
                    Append(@, SafetyLogRow(user, message_body, env.safety.sources, t))],
                st, user, message_body, "safety", env.safety.answer, env.safety.image_url,
                classified, ConversationSources(recent_log), env)

\* elif message_type == 'general':
GeneralBranch(db, st, user, message_body, recent_log, t, env) ==
    IF FollowUp(recent_log, message_body)
    THEN SafetyBranch(db, st, user, message_body, "general", recent_log, t, env)
    ELSE IF IsGeneralIntro(message_body)
    THEN Finish(db, st, user, message_body, "intro", env.reply, <<>>, "general", <<>>, env)
    ELSE IF env.fails = "general"
    THEN Result(TRUE, "general", Reply(<<>>), <<>>, db, st, message_body, "general", <<>>)
    ELSE Finish(db, st, user, message_body, "general", env.reply, <<>>, "general", <<>>, env)

\* from message_type = classify_message(message_body) on
Route(db, st, user, message_body, message_type, t, env) ==
    IF env.fails = "recent_log"
    THEN Result(TRUE, "lookup", Reply(<<>>), <<>>, db, st, message_body, message_type, <<>>)
    ELSE IF message_type = "cached"
    THEN Finish(db, st, user, message_body, "cached", env.reply, <<>>, "cached", <<>>, env)
    ELSE IF message_type = "general"
    THEN GeneralBranch(db, st, user, message_body, RecentLog(db, user, t), t, env)
    ELSE SafetyBranch(db, st, user, message_body, "safety", RecentLog(db, user, t), t, env)

\* the sender's record made before the answer of the checks is looked at
CheckedAfterUser(db, sec, from_number, message_type, t, env) ==
    IF ~sec.passed
    THEN Result(FALSE, "rejected", sec.text, <<>>,
                [db EXCEPT !.users = @ \cup {from_number}], sec.store, <<>>, "none", <<>>)
    ELSE IF Strip(sec.text) = <<>>
    THEN Result(FALSE, "empty", Reply(EMPTY_RESPONSE), <<>>,
                [db EXCEPT !.users = @ \cup {from_number}], sec.store, sec.text, "none", <<>>)
    ELSE IF env.fails = "get_or_create"
    THEN Result(TRUE, "user", Reply(<<>>), <<>>, db, sec.store, sec.text, "none", <<>>)
    ELSE Route([db EXCEPT !.users = @ \cup {from_number}], sec.store, from_number, sec.text,
               message_type, t, env)

\* after run_security_checks returned
Checked(db, sec, from_number, message_type, t, env) ==
    IF ~sec.passed
    THEN Result(FALSE, "rejected", sec.text, <<>>, db, sec.store, <<>>, "none", <<>>)
    ELSE IF Strip(sec.text) = <<>>
    THEN Result(FALSE, "empty", Reply(EMPTY_RESPONSE), <<>>, db, sec.store, sec.text, "none", <<>>)
    ELSE IF env.fails = "get_or_create"
    THEN Result(TRUE, "user", Reply(<<>>), <<>>, db, sec.store, sec.text, "none", <<>>)
    ELSE Route([db EXCEPT !.users = @ \cup {from_number}], sec.store, from_number, sec.text,
               message_type, t, env)

\* the body of the try statement
TryBody(db, st, from_number, message_body, sanitised, message_type, skip, t, env) ==
    IF env.fails = "security"
    THEN Result(TRUE, "security", Reply(<<>>), <<>>, db, st, message_body, "none", <<>>)
    ELSE Checked(db, run_security_checks(st, from_number, message_body, sanitised, skip, t),
                 from_number, message_type, t, env)

\* the inner try of the except clause: the row kept for audit
FailureAudit(db, from_number, message_body, handler) ==
    IF handler # "saves" \/ from_number \notin db.users THEN db
    ELSE [db EXCEPT !.conversations =
             Append(@, ConversationRow(from_number,
                                       IF message_body # <<>>
                                       THEN SubSeq(message_body, 1,
                                                   IF Len(message_body) > 5000 THEN 5000
                                                   ELSE Len(message_body))
                                       ELSE <<"(error before message set)">>,
                                       Reply(ERROR_RESPONSE), <<>>))]

\* the inner failure left to propagate
ExceptUnguarded(body, from_number, handler) ==
    [body EXCEPT !.raised = handler # "saves", !.path = "error",
                 !.response = Reply(ERROR_RESPONSE), !.image_url = <<>>,
                 !.db = FailureAudit(body.db, from_number, body.message_body, handler)]

\* except Exception: ... return (error_response, None)
Except(body, from_number, handler) ==
    [body EXCEPT !.raised = FALSE, !.path = "error",
                 !.response = Reply(ERROR_RESPONSE), !.image_url = <<>>,
                 !.db = FailureAudit(body.db, from_number, body.message_body, handler)]

\* the try statement: what its body returned, or what its except clause did
Handled(body, from_number, handler) ==
    IF body.raised THEN Except(body, from_number, handler) ELSE body

\* sanitised is sanitise_message(message_body) and message_type is
\* classify_message(sanitised)
process_incoming_message(db, st, from_number, message_body, sanitised, message_type, skip, t, env) ==
    Handled(TryBody(db, st, from_number, message_body, sanitised, message_type, skip, t, env),
            from_number, env.handler)

---------------------------------------------------------------------------
(* The handler under a small scope: messages of every route, a sender     *)
(* with and without a safety exchange behind them, and the failures of    *)
(* the database and of the answering calls                                 *)

\* the messages that arrive
InboundMessages ==
    <<<<"h","i">>,
      <<"H","i","?">>,
      <<"h","i","?","!">>,
      <<"w","h","y","?">>,
      <<"o","k"," ","t","h","e","n">>,
      <<"h","e","l","p"," ">> \o Repeat("x", FOLLOW_UP_MAX_LENGTH - 6) \o <<"?">>,
      <<"h","e","l","p"," ">> \o Repeat("x", FOLLOW_UP_MAX_LENGTH - 5) \o <<"?">>,
      <<"w","h","i","c","h"," ","g","l","o","v","e","s">>,
      <<"w","h","a","t"," ","a","b","o","u","t"," ","t","h","e"," ","o","t","h","e","r"," ","f","o","u","r">>,
      <<"y","o","u"," ","a","r","e"," ","n","o","w">>,
      Repeat("x", MAX_MESSAGE_LENGTH + 1)>>

\* sanitise_message of each of InboundMessages, computed once
InboundSanitised ==
    {<<m, sanitise_message(InboundMessages[m])>> : m \in 1..Len(InboundMessages)}

IMAGE_LINK == HTTPS \o <<"i","m","g",".","i","o","/","a",".","p","n","g">>

\* what process_safety_query does when it is called
SafetyOutcomes ==
    {[raised |-> TRUE, answer |-> <<>>, sources |-> <<>>, image_url |-> <<>>],
     [raised |-> FALSE, answer |-> NOT_IN_DOCUMENTS_MESSAGE, sources |-> <<>>, image_url |-> <<>>],
     [raised |-> FALSE, answer |-> ADVICE, sources |-> <<MANUAL, RULES>>, image_url |-> IMAGE_LINK]}

\* the call of the try statement that raises, if one does
FailPoints ==
    {"none", "security", "get_or_create", "recent_log", "general", "safety_log", "conversation"}

\* the inner try of the except clause: it saves, or its lookup or its save raises
HandlerOutcomes == {"saves", "lookup_fails", "save_fails"}

\* what the calls the handler makes do; an outcome no call can meet is left
\* at one value
Environments ==
    {env \in [fails : FailPoints, handler : HandlerOutcomes, safety : SafetyOutcomes,
              reply : {<<"H","e","l","l","o",".">>}] :
        /\ (env.fails = "none" /\ ~env.safety.raised) => env.handler = "saves"
        /\ env.fails # "none" => env.safety.sources # <<>>}

\* classify_message of each sanitised message, computed once
InboundClassified ==
    {<<m, classify_message(sanitise_message(InboundMessages[m]))>> : m \in 1..Len(InboundMessages)}

\* the messages one behaviour handles
MaxInbound == 2

\* the database before the first message, the clock standing at 0 and the
\* first message being handled at 1
InitialDbs ==
    {[users |-> {}, conversations |-> <<>>, safety_logs |-> <<>>],
     [users |-> {MainSender}, conversations |-> <<>>, safety_logs |-> <<>>],
     [users |-> {MainSender}, conversations |-> <<>>,
      safety_logs |-> <<[user |-> MainSender, timestamp |-> 0 - CONVERSATION_CONTEXT_MINUTES * 60,
                         sources |-> MANUAL]>>],
     [users |-> {MainSender}, conversations |-> <<>>,
      safety_logs |-> <<[user |-> MainSender, timestamp |-> 1 - CONVERSATION_CONTEXT_MINUTES * 60,
                         sources |-> MANUAL \o <<",", " ">> \o RULES]>>],
     [users |-> {MainSender}, conversations |-> <<>>,
      safety_logs |-> <<[user |-> MainSender, timestamp |-> 0, sources |-> <<>>]>>],
     [users |-> {MainSender, "s2"}, conversations |-> <<>>,
      safety_logs |-> <<[user |-> "s2", timestamp |-> 0, sources |-> MANUAL]>>]}

InitInbound ==
    /\ \E n \in {0, MAX_REQUESTS_PER_HOUR - 1} : Served(n)
    /\ TasksIdle /\ SanitiseIdle /\ ChunkIdle /\ IndexIdle /\ SingletonIdle /\ QueryIdle /\ PostIdle
    /\ hpc = "idle"
    /\ hin = [from_number |-> MainSender, handled |-> 0]
    /\ hdb \in InitialDbs
    /\ hout = [returned |-> FALSE]

\* the webhook hands a message to the handler
Arrive ==
    /\ hpc = "idle"
    /\ hin.handled < MaxInbound
    /\ \E m \in 1..Len(InboundMessages), env \in Environments :
           hin' = [from_number |-> MainSender, handled |-> hin.handled + 1,
                   message_body |-> InboundMessages[m],
                   sanitised |-> (CHOOSE p \in InboundSanitised : p[1] = m)[2],
                   message_type |-> (CHOOSE p \in InboundClassified : p[1] = m)[2],
                   before |-> hdb, env |-> env]
    /\ now' = now + 1
    /\ hpc' = "handle"
    /\ hout' = [returned |-> FALSE]
    /\ UNCHANGED <<hdb, store, event, acceptedLog, lastRejected, otherCalls,
                   taskVars, sanVars, chunkVars, indexVars, queryVars, postVars, singletonVars>>

\* process_incoming_message(from_number, message_body)
Incoming ==
    /\ hpc = "handle"
    /\ \E r \in {process_incoming_message(hdb, store, hin.from_number, hin.message_body,
                                          hin.sanitised, hin.message_type, FALSE, now,
                                          hin.env)} :
           /\ hout' = [returned |-> ~r.raised, raised |-> r.raised, failed |-> r.failed,
                       path |-> r.path, response |-> r.response, image_url |-> r.image_url,
                       classified |-> r.classified,
                       conversation_sources |-> r.conversation_sources]
           /\ hdb' = r.db
           /\ store' = r.store
    /\ hpc' = "idle"
    /\ UNCHANGED <<hin, now, event, acceptedLog, lastRejected, otherCalls,
                   taskVars, sanVars, chunkVars, indexVars, queryVars, postVars, singletonVars>>

NextInbound == Arrive \/ Incoming

SpecInbound == InitInbound /\ [][NextInbound]_vars

---------------------------------------------------------------------------
(* safety/ai_utils/rag_system.py: search, and the searches                 *)
(* process_safety_query makes (agents.py, lines 364-405)                   *)

\* settings.SAFEGUARDAI['RAG_NUM_RESULTS']
RAG_NUM_RESULTS == 5

\* collection.query(n_results=k): the k rows nearest to the query, nearest
\* first; ranked is the whole collection in that order
QueryIndex(ranked, k) == SubSeq(ranked, 1, k)

\* the rows the index gave, in the opposite order
FormattedBackwards(rows) ==
    [i \in 1..Len(SelectSeq(rows, LAMBDA row : Strip(row.text) # <<>>)) |->
        SelectSeq(rows, LAMBDA row : Strip(row.text) # <<>>)[
            Len(SelectSeq(rows, LAMBDA row : Strip(row.text) # <<>>)) + 1 - i]]

\* the loop of lines 219-229: a row is kept when its text is not blank
Formatted(rows) == SelectSeq(rows, LAMBDA row : Strip(row.text) # <<>>)

\* SafetyRAG.search(query, n_results): fails is whether the embedding or the
\* index raised
search(ranked, n_results, fails) ==
    IF fails \/ Len(ranked) = 0 THEN <<>>
    ELSE Formatted(QueryIndex(ranked, Min({n_results, Len(ranked)})))

\* the query handed to the search unchanged
UnaugmentedQuery(conversation_sources, query) == query

\* ' '.join(conversation_sources) + ' ' + query
AugmentedQuery(conversation_sources, query) ==
    JoinWith(conversation_sources, <<" ">>) \o <<" ">> \o query

---------------------------------------------------------------------------
(* The searches of one call under a small scope: collections of up to     *)
(* MaxRanked chunks, near and far, some of them blank                      *)

\* the chunks of a collection
MaxRanked == 3

RankedRows == [text : {<<" ">>, <<"t">>}, source : {MANUAL}, distance : {30, 45, 60}]

RECURSIVE RankedOfLen(_)
\* the collections of n chunks, the nearest chunk first
RankedOfLen(n) ==
    IF n = 0 THEN {<<>>}
    ELSE {Append(r, row) : r \in RankedOfLen(n - 1), row \in RankedRows}

Rankings ==
    {r \in UNION {RankedOfLen(n) : n \in 0..MaxRanked} :
        \A i \in 1..(Len(r) - 1) : r[i].distance <= r[i + 1].distance}

\* the values of n_results
SearchSizes == {2, RAG_NUM_RESULTS}

InitRetrieve ==
    /\ GateIdle /\ TasksIdle /\ SanitiseIdle /\ ChunkIdle /\ IndexIdle /\ SingletonIdle /\ OthersIdle
    /\ qpc = "search"
    /\ qin \in [query : {PLAIN_QUERY},
                conversation_sources : {<<>>, <<MANUAL>>, <<MANUAL, RULES>>},
                hints : {TOPIC_REQUIRED_SOURCE_HINTS},
                n_results : SearchSizes]
    /\ qenv = [asked |-> <<>>, ranked |-> <<>>, answers |-> <<>>]
    /\ qout = NotInDocuments(0)

\* rag_results = rag.search(query, n_results=n_results)
FirstSearch ==
    /\ qpc = "search"
    /\ \E ranked \in Rankings, fails \in BOOLEAN :
           qenv' = [asked |-> <<qin.query>>, ranked |-> <<ranked>>,
                    answers |-> <<search(ranked, qin.n_results, fails)>>]
    /\ qpc' = IF Retries(qin.conversation_sources, qenv'.answers[1]) THEN "retry" ELSE "gate"
    /\ UNCHANGED <<qin, qout, offQuery>>

\* rag_results_2 = rag.search(augmented_query, n_results=n_results)
SecondSearch ==
    /\ qpc = "retry"
    /\ \E ranked \in Rankings, fails \in BOOLEAN :
           qenv' = [asked |-> Append(qenv.asked,
                                     AugmentedQuery(qin.conversation_sources, qin.query)),
                    ranked |-> Append(qenv.ranked, ranked),
                    answers |-> Append(qenv.answers, search(ranked, qin.n_results, fails))]
    /\ qpc' = "gate"
    /\ UNCHANGED <<qin, qout, offQuery>>

\* lines 369-405: the passages the call goes on with, or the answer of the
\* early return
Gated ==
    /\ qpc = "gate"
    /\ \E got \in {Retrieved(qin.conversation_sources, qenv.answers[1],
                              IF Len(qenv.answers) = 2 THEN qenv.answers[2] ELSE <<>>)} :
           qout' = [passed |-> got.passed, rag_results |-> got.rag_results,
                    searches |-> got.searches,
                    early |-> IF got.passed THEN NotInDocuments(0)
                              ELSE process_safety_query(qin.query, got, <<>>, NoAnswers.llm,
                                                        TRUE, NoPost, qin.hints)]
    /\ qpc' = "retrieved"
    /\ UNCHANGED <<qin, qenv, offQuery>>

NextRetrieve == FirstSearch \/ SecondSearch \/ Gated

SpecRetrieve == InitRetrieve /\ [][NextRetrieve]_vars

---------------------------------------------------------------------------
(* get_rag called by the webhook's background threads and by the request   *)
(* handlers, one step of a caller at a time                                *)

\* get_rag is called at most this many times in all
MaxGetRagCalls == 4

InitSingleton ==
    /\ GateIdle /\ TasksIdle /\ SanitiseIdle /\ ChunkIdle /\ IndexIdle /\ QueryIdle /\ OthersIdle
    /\ SingletonIdle

\* a caller enters get_rag
GetRag(c) ==
    /\ gpc[c] = "idle"
    /\ gcalls < MaxGetRagCalls
    /\ gcalls' = gcalls + 1
    /\ gpc' = [gpc EXCEPT ![c] = "test"]
    /\ UNCHANGED <<rag_instance, built, gnew, ggot, offSingleton>>

\* if _rag_instance is None:
TestInstance(c) ==
    /\ gpc[c] = "test"
    /\ gpc' = [gpc EXCEPT ![c] = IF rag_instance = NoInstance THEN "construct" ELSE "return"]
    /\ UNCHANGED <<rag_instance, built, gcalls, gnew, ggot, offSingleton>>

\* SafetyRAG(): a new instance with a vector-store client of its own
Construct(c) ==
    /\ gpc[c] = "construct"
    /\ built' = built + 1
    /\ gnew' = [gnew EXCEPT ![c] = built + 1]
    /\ gpc' = [gpc EXCEPT ![c] = "store"]
    /\ UNCHANGED <<rag_instance, gcalls, ggot, offSingleton>>

\* _rag_instance = <the new instance>
StoreInstance(c) ==
    /\ gpc[c] = "store"
    /\ rag_instance' = gnew[c]
    /\ gpc' = [gpc EXCEPT ![c] = "return"]
    /\ UNCHANGED <<built, gcalls, gnew, ggot, offSingleton>>

\* return _rag_instance
ReturnInstance(c) ==
    /\ gpc[c] = "return"
    /\ ggot' = [ggot EXCEPT ![c] = rag_instance]
    /\ gpc' = [gpc EXCEPT ![c] = "idle"]
    /\ UNCHANGED <<rag_instance, built, gcalls, gnew, offSingleton>>

NextSingleton ==
    \E c \in Callers :
        \/ GetRag(c)
        \/ TestInstance(c)
        \/ Construct(c)
        \/ StoreInstance(c)
        \/ ReturnInstance(c)

SpecSingleton == InitSingleton /\ [][NextSingleton]_vars

---------------------------------------------------------------------------
(* Claims on the rate limiter and the gate                                 *)

\* the entry of phone in the table: absent, or its list
Entry(st, phone) == IF phone \in DOMAIN st THEN <<st[phone]>> ELSE <<>>

\* how many of the clocks in log lie less than 3600 s before t
InLastHour(log, t) == Cardinality({i \in 1..Len(log) : log[i] > t - 3600})

\* the accepted calls of the sender of the last call, that call left out
PriorAccepted ==
    IF event.passed
    THEN SubSeq(acceptedLog[event.sender], 1, Len(acceptedLog[event.sender]) - 1)
    ELSE acceptedLog[event.sender]

\* C1: with clocks that never decrease, a call of check_rate_limit passes
\* exactly when fewer than 20 calls of the same sender were accepted in the
\* 3600 s before it: the first 20 calls in a window pass, the 21st is rejected,
\* and once the recorded calls are older than the window a call passes again.
C1_WindowOfTwenty ==
    event.op = "check" =>
        (event.passed <=> InLastHour(PriorAccepted, now) < 20)

\* C1 witness: the sender had 20 calls accepted, was rejected, and a later call
\* (the 21st accepted) passes.
C1_Witness ==
    /\ event.op = "check"
    /\ event.passed
    /\ lastRejected[event.sender] >= 0
    /\ Len(acceptedLog[event.sender]) = 21

\* C2: when background tasks call check_rate_limit for one sender at the same
\* time, filtering and appending act as one step, no accepted request is lost
\* from the list, and so no window of 3600 s holds more than 20 accepted
\* requests of a sender, whatever the interleaving.
C2_CapUnderInterleaving ==
    \A s \in Senders : \A t \in ClockValues :
        InLastHour(SelectSeq(acceptedLog[s], LAMBDA a : a <= t), t) <= 20

\* C4: whatever the message, what sanitise_message returns holds no phrase of
\* DANGEROUS_PATTERNS in any mix of upper and lower case, also not one that
\* the removal of another occurrence or phrase put together.
C4_NoPhraseLeft ==
    msgOut.returned =>
        \A k \in 1..Len(DANGEROUS_PATTERNS) :
            ~Contains(Lower(msgOut.text), DANGEROUS_PATTERNS[k])

\* C5: a rejected call of check_rate_limit leaves the sender's entry in the
\* table as it was: nothing is recorded for a rejected request.
C5_RejectedRecordsNothing ==
    [][(event'.op = "check" /\ ~event'.passed)
        => Entry(store', event'.sender) = Entry(store, event'.sender)]_vars

\* C5 witness: a call was rejected while the sender's list was full.
C5_Witness ==
    /\ event.op = "check"
    /\ ~event.passed
    /\ Len(Get(store, event.sender)) = 20

\* C3: run_security_checks checks the length first, then sanitises, then
\* (unless skipped) asks the rate limiter, and returns at the first failure
\* with (False, text): a message that is too long is answered with the length
\* text and never reaches check_rate_limit, so the table is untouched; an
\* accepted message comes back sanitised.
C3_GateOrder ==
    [][event'.op = "gate" =>
        IF Len(Messages[event'.message]) > 500
        THEN /\ ~event'.passed
             /\ event'.text = [kind |-> "too_long",
                               length |-> Len(Messages[event'.message]),
                               limit |-> 500]
             /\ ~event'.rateChecked
             /\ store' = store
             /\ acceptedLog' = acceptedLog
        ELSE /\ event'.rateChecked = ~event'.skip
             /\ event'.skip => event'.passed /\ store' = store
             /\ event'.passed => event'.text = SanitisedOf(event'.message)
             /\ ~event'.passed => event'.text.kind = "rate_limited"]_vars

\* C3 witness: a message that is too long was rejected for a sender who has
\* used part of the quota, with the rate check not skipped.
C3_Witness ==
    /\ event.op = "gate"
    /\ Len(Messages[event.message]) > 500
    /\ ~event.skip
    /\ ~event.passed
    /\ Len(Get(store, event.sender)) > 0

---------------------------------------------------------------------------
(* Claims on chunk_text                                                   *)

\* the words of the chunks put together, of each chunk only the words past
\* prev_end, the end of the chunk before it
RECURSIVE Reassembled(_, _, _, _)
Reassembled(cs, spans, k, prev_end) ==
    IF k > Len(cs) THEN <<>>
    ELSE SubSeq(Split(cs[k]), prev_end - spans[k][1] + 1, Len(Split(cs[k])))
         \o Reassembled(cs, spans, k + 1, spans[k][2])

\* what holds of the chunks made so far
ChunksInOrder ==
    /\ Len(cspans) = Len(chunks)
    /\ \A k \in 1..Len(chunks) :
          /\ 1 <= cspans[k][1] /\ cspans[k][1] < cspans[k][2]
          /\ cspans[k][2] <= Len(cwords) + 1
          /\ Split(chunks[k]) = SubSeq(cwords, cspans[k][1], cspans[k][2] - 1)
          /\ k > 1 => /\ cspans[k][1] > cspans[k - 1][1]
                      /\ cspans[k][1] <= cspans[k - 1][2]
    /\ Len(cspans) > 0 => cstart > cspans[Len(cspans)][1]

\* what holds of the chunks returned
ChunksCover ==
    cpc = "done" =>
        /\ \A w \in 1..Len(cwords) :
              \E k \in 1..Len(chunks) : cspans[k][1] <= w /\ w < cspans[k][2]
        /\ Reassembled(chunks, cspans, 1, 1) = cwords
        /\ chunks = chunk_text(ctext, CHUNK_SIZE, CHUNK_OVERLAP)

\* C6: for 0 <= overlap < size chunk_text returns; each chunk is a run of
\* neighbouring words of text.split() in their order, every word is in some
\* chunk, each chunk starts at a later word than the one before, and the
\* chunks put together, each without the words the one before already had,
\* give the words of the text again.
C6_ChunksCoverText ==
    /\ [](0 <= CHUNK_OVERLAP /\ CHUNK_OVERLAP < CHUNK_SIZE => ChunksInOrder /\ ChunksCover)
    /\ <>(cpc = "done")

\* C6 witness: a text was cut into three chunks or more that overlap, and
\* chunk_text has returned.
C6_Witness ==
    /\ cpc = "done"
    /\ Len(chunks) >= 3
    /\ CHUNK_OVERLAP > 0
    /\ \E k \in 2..Len(chunks) : cspans[k][1] < cspans[k - 1][2]

---------------------------------------------------------------------------
(* Claims on add_document                                                  *)

\* the chunks of the title the collection holds, each with its place
Held(coll, title) == {<<r.chunk_index, r.document>> : r \in {q \in coll : q.source = title}}

\* the chunks of the text add_document loaded, each with its place
Produced(call) ==
    {<<i - 1, ChunksOf(call.text)[i]>> : i \in 1..Len(ChunksOf(call.text))}

\* of these, the chunks whose embedding came back
Embedded(call) ==
    {<<i - 1, ChunksOf(call.text)[i]>> :
        i \in {j \in 1..Len(ChunksOf(call.text)) : call.outcome[j].ok}}

\* no (title, sequence_index) pair twice
NoPairTwice(coll) ==
    \A r, q \in coll : r.source = q.source /\ r.chunk_index = q.chunk_index => r = q

CredentialErrors == {ERR_KEY, ERR_AUTH}

ConnectivityErrors == {ERR_CONNECTION, ERR_TIMEOUT}

\* the message the first error's text calls for
ExpectedMessage(error_text) ==
    INDEXING_FAILED \o
    (IF error_text \in CredentialErrors THEN KEY_MESSAGE
     ELSE IF error_text \in ConnectivityErrors THEN REACH_MESSAGE
     ELSE IF error_text = ERR_BLANK THEN EMBEDDING_API_ERROR
     ELSE Strip(error_text))

\* C9: a call of add_document that goes on to embed raises 'Indexing failed'
\* exactly when the text gave a chunk and no chunk's embedding came back; its
\* message is then the credential, the connectivity or the generic one that
\* the first error's text calls for.  Otherwise the call returns and the
\* index holds for the title exactly the chunks whose embedding came back.
C9_PartialFailureCommits ==
    icall.loaded =>
        /\ icall.result = "raised"
             <=> /\ Len(icall.outcome) > 0
                 /\ \A i \in 1..Len(icall.outcome) : ~icall.outcome[i].ok
        /\ icall.result = "raised" => icall.message = ExpectedMessage(icall.outcome[1].error)
        /\ icall.result # "raised" =>
             /\ icall.result = "returned"
             /\ Held(collection, icall.title) = Embedded(icall)

\* C9 witness: of two chunks the first failed and the second was embedded;
\* the call returned and the index holds the second chunk alone.
C9_Witness ==
    /\ icall.result = "returned"
    /\ Len(icall.outcome) = 2
    /\ ~icall.outcome[1].ok /\ icall.outcome[2].ok
    /\ Cardinality(Held(collection, icall.title)) = 1

---------------------------------------------------------------------------
(* Claims on process_safety_query                                          *)

\* C10: when process_safety_query returns the canonical not-in-documents
\* message as its answer, the sources it returns are empty and no
\* '*Sources:*' line is appended, whatever the searches found and whatever
\* the language model wrote.
C10_CanonicalHasNoSources ==
    (qpc = "done" /\ ~qout.raised /\ qout.answer = NOT_IN_DOCUMENTS_MESSAGE)
        => qout.sources = <<>>

\* what _classify_not_in_docs_reply compares: white space collapsed, lower case
Folded(text) == Lower(CollapseSpaces(Strip(text)))

\* the three cases of a fallback match: the folded answer an is the folded
\* canonical message nn, or holds a refusal phrase and is at most twice as
\* long as nn, or holds the first 50 characters of nn
IsFallbackMatch(an, nn) ==
    \/ an = nn
    \/ /\ Contains(an, ISNT_IN_DOCS) \/ Contains(an, NOT_IN_DOCS)
       /\ Len(an) <= 2 * Len(nn)
    \/ Contains(an, SubSeq(nn, 1, 50))

\* the language-model outcomes whose answer is a fallback match in one of the
\* three cases, the answer being the one the classifier is given
FallbackMatches ==
    {row \in {<<direct, llm>> : direct \in BOOLEAN, llm \in LlmOutcomes} :
        IsFallbackMatch(Folded(NormaliseBold(Synthesised(row[1], row[2]))),
                        Folded(NOT_IN_DOCUMENTS_MESSAGE))}

\* C11: when the answer handed to _classify_not_in_docs_reply is, white space
\* and case apart, the canonical message, or holds a refusal phrase and is at
\* most twice as long as the canonical message, or holds the canonical
\* message's first 50 characters whatever its length, process_safety_query
\* returns the canonical message verbatim and no sources.
C11_FallbackMatchReplaces ==
    (/\ qpc = "done" /\ ~qout.raised /\ qout.llm_calls = 1
     /\ <<Direct(qin.query), qenv.llm>> \in FallbackMatches)
        => qout.answer = NOT_IN_DOCUMENTS_MESSAGE /\ qout.sources = <<>>

\* some passage of a search's answer has a distance within the threshold
SomeWithin(rag_results) ==
    \E i \in 1..Len(rag_results) :
        /\ rag_results[i].distance # NoDistance
        /\ rag_results[i].distance <= RAG_RELEVANCE_DISTANCE_THRESHOLD

\* the answer's best distance is above the threshold
BestAbove(rag_results) ==
    /\ \E i \in 1..Len(rag_results) : rag_results[i].distance # NoDistance
    /\ ~SomeWithin(rag_results)

\* retrieval returned no passages
RetrievalEmpty == qenv.first = <<>>

\* best distance above the threshold and no acceptable retry
RelevanceBelowThreshold ==
    /\ BestAbove(qenv.first)
    /\ qin.conversation_sources = <<>> \/ ~SomeWithin(qenv.second)

\* the topic gate fired on the titles of passages that passed the distance gate
TopicMismatch ==
    /\ ~RetrievalEmpty /\ ~RelevanceBelowThreshold
    /\ query_expects_topic_not_in_sources(qin.query, qenv.sources, qin.hints)

\* C12: when the search returns no passages, or the best distance is above
\* the threshold and no retry is acceptable, or the topic gate fires,
\* process_safety_query returns the canonical not-in-documents message with
\* empty sources, and has called neither the language model nor the image
\* generator.
C12_GatedReturnsCanonical ==
    (qpc = "done" /\ (RetrievalEmpty \/ RelevanceBelowThreshold \/ TopicMismatch))
        => /\ ~qout.raised
           /\ qout.answer = NOT_IN_DOCUMENTS_MESSAGE
           /\ qout.sources = <<>>
           /\ qout.llm_calls = 0
           /\ qout.image_calls = 0

\* C12 witness: two passages within the threshold were found for a question
\* that asks for an image, the topic gate fired, and the call returned the
\* canonical message without a call of the language model.
C12_Witness ==
    /\ qpc = "done"
    /\ Len(qenv.first) = 2 /\ SomeWithin(qenv.first)
    /\ TopicMismatch
    /\ Asked(qin.query)
    /\ qout.answer = NOT_IN_DOCUMENTS_MESSAGE /\ qout.llm_calls = 0

\* the distance gate sent a question back after a retry
RetryRefused ==
    /\ qpc = "done" /\ qout.searches = 2 /\ RelevanceBelowThreshold
    /\ qenv.second # <<>>

\* some title of sources holds hint, case apart
TitleHolds(sources, hint) ==
    \E i \in 1..Len(sources) : Contains(Lower(sources[i]), hint)

\* the query holds a keyword of the rule and no title holds a hint of it
RuleMismatch(query, sources, rule) ==
    /\ AnyIn(rule[1], Lower(query))
    /\ \A h \in 1..Len(rule[2]) : ~TitleHolds(sources, rule[2][h])

\* the passages process_safety_query goes on with passed the distance gate
PassedDistanceGate == ~RetrievalEmpty /\ ~RelevanceBelowThreshold

\* C13: when the passages passed the distance gate, the query holds a trigger
\* keyword of some configured rule and no title of the retrieved sources holds
\* a required hint of that rule, process_safety_query returns the canonical
\* message with empty sources; with the default empty rule set the language
\* model is always called once the distance gate is passed.
C13_TopicGate ==
    (qpc = "done" /\ PassedDistanceGate) =>
        /\ (\E r \in 1..Len(qin.hints) : RuleMismatch(qin.query, qenv.sources, qin.hints[r]))
               => qout.answer = NOT_IN_DOCUMENTS_MESSAGE /\ qout.sources = <<>>
        /\ qin.hints = TOPIC_REQUIRED_SOURCE_HINTS => qout.llm_calls = 1

---------------------------------------------------------------------------
(* Claims on the hard limit and the attribution                            *)

\* p is a prefix of s
IsPrefix(p, s) == Len(p) <= Len(s) /\ SubSeq(s, 1, Len(p)) = p

\* C14: the answer that leaves the hard limit is never longer than the
\* configured maximum, and when it was cut it is a prefix of the answer that
\* came in, with at most one '.' after it, and ends in '.', '!' or '?'.
C14_HardLimit ==
    ppc = "attribute" =>
        /\ Len(ptext) <= pin.max_len
        /\ Len(pin.answer) > pin.max_len =>
             /\ ptext # <<>> /\ ptext[Len(ptext)] \in {".", "!", "?"}
             /\ \/ IsPrefix(ptext, pin.answer)
                \/ /\ ptext[Len(ptext)] = "."
                   /\ IsPrefix(SubSeq(ptext, 1, Len(ptext) - 1), pin.answer)
        /\ Len(pin.answer) <= pin.max_len => ptext = pin.answer

\* C14 witness: an answer longer than the maximum with no sentence end in
\* reach was cut at its last blank and closed with a '.'.
C14_Witness ==
    /\ ppc = "attribute"
    /\ Len(pin.answer) > pin.max_len
    /\ ~IsPrefix(ptext, pin.answer)
    /\ Len(ptext) < pin.max_len
    /\ Contains(SubSeq(pin.answer, 1, pin.max_len), <<" ">>)

\* s ends with p
EndsIn(s, p) == Len(p) <= Len(s) /\ SubSeq(s, Len(s) - Len(p) + 1, Len(s)) = p

\* the '*Sources:*' line of the titles
SourcesLine(sources) == <<"*","S","o","u","r","c","e","s",":","*"," ">> \o JoinWith(sources, <<",", " ">>)

\* C15: for every answer and every non-empty list of sources with
\* omit_sources unset, the text send_whatsapp_message hands to the gateway,
\* after its own cut to the hard limit, still ends with the complete
\* '*Sources:*' line that names every title.
C15_AttributionSurvivesSend ==
    (ppc = "done" /\ pin.sources # <<>> /\ ~pin.omit_sources)
        => EndsIn(ptext, SourcesLine(pin.sources))

---------------------------------------------------------------------------
(* Claims on the bold markers                                              *)

\* s with every run of '*' brought down to one '*'
RECURSIVE OneStarPerRun(_)
OneStarPerRun(s) ==
    IF Len(s) < 2 THEN s
    ELSE IF s[1] = "*" /\ s[2] = "*" THEN OneStarPerRun(Tail(s))
    ELSE <<s[1]>> \o OneStarPerRun(Tail(s))

\* C16: the loop that replaces '**' by '*' ends for every answer; the answer
\* it leaves holds no '**', every run of '*' of the answer it was given being
\* one '*'; an odd count of '*' is logged and the processing goes on to the
\* classification.
C16_BoldLoopEnds ==
    /\ [](ppc = "classify" =>
            /\ ~Contains(ptext, <<"*","*">>)
            /\ ptext = OneStarPerRun(pin.answer)
            /\ pin.warned <=> OddMarkers(ptext))
    /\ [](ppc = "bold" => pin.rounds <= Len(pin.answer))
    /\ <>(ppc = "classify")

\* C16 witness: five '*' in a row took three rounds to become one, and the
\* odd count was logged.
C16_Witness ==
    /\ ppc = "classify"
    /\ Contains(pin.answer, <<"*","*","*","*","*">>)
    /\ pin.rounds = 3
    /\ pin.warned
    /\ Cardinality({i \in 1..Len(ptext) : ptext[i] = "*"}) = 1

---------------------------------------------------------------------------
(* Claims on the image clean-up                                            *)

\* C17: whenever process_safety_query returns a non-empty image_url, the
\* answer it returns holds no 'SAFEGUARD_IMAGE_URL:', no 'https://' and no
\* three line ends in a row (more than one blank line), whatever the
\* synthesizer wrote.
C17_ImageAnswerClean ==
    (ppc = "send" /\ "image_url" \in DOMAIN pin /\ pin.image_url # <<>>) =>
        /\ ~Contains(ptext, SAFEGUARD_IMAGE_URL_PREFIX)
        /\ ~Contains(ptext, HTTPS)
        /\ ~Contains(ptext, <<"\n","\n","\n">>)

---------------------------------------------------------------------------
(* Claims on the handler of an incoming message                            *)

\* string.punctuation, the grave accent apart
Punctuation ==
    {"!", "\"", "#", "$", "%", "&", "'", "(", ")", "*", "+", ",", "-", ".", "/", ":",
     ";", "<", "=", ">", "?", "@", "[", "\\", "]", "^", "_", "{", "|", "}", "~"}

\* the message in lower case, its punctuation and the white space at its ends taken away
PunctuationStripped(message) ==
    Strip(SelectSeq(Lower(message), LAMBDA c : c \notin Punctuation))

\* the handler classified the message and answered it
Replied ==
    /\ hpc = "idle"
    /\ hout.returned
    /\ hout.path \in {"cached", "intro", "general", "safety"}

\* the four conditions of the follow-up override, as the specification words them
FollowUpConditions ==
    /\ RecentLogs(hin.before, hin.from_number, now) # {}
    /\ Contains(hin.sanitised, <<"?">>)
    /\ Len(hin.sanitised) <= FOLLOW_UP_MAX_LENGTH
    /\ ~InCache(PunctuationStripped(hin.sanitised))

\* C18: a message classified 'general' is answered on the safety path
\* exactly when the sender has a safety log within the recency window, the
\* message contains '?', it is at most 120 characters long and, its
\* punctuation stripped, it is not a key of the canned responses; a message
\* classified 'cached' is never answered on the safety path.
C18_FollowUpRouting ==
    Replied =>
        /\ hout.classified = "cached" => hout.path = "cached"
        /\ hout.classified = "general" => (hout.path = "safety" <=> FollowUpConditions)

\* a call of the handler has ended
CallEnded ==
    /\ hpc = "idle"
    /\ hin.handled > 0

\* the row the except clause keeps for audit
IsFailureRow(row) ==
    /\ row.user = hin.from_number
    /\ row.response = Reply(ERROR_RESPONSE)
    /\ ~row.response_included_image

\* C19: the handler never raises. When a call inside its try statement
\* raised, it returns the generic 'unable to process' reply without an image;
\* the conversations then are those before the call followed by exactly one
\* failure row when a user record of the sender exists and the row could be
\* saved, and those before the call when the lookup or the save failed or the
\* sender has no record.
C19_FailureIsCaught ==
    CallEnded =>
        /\ hout.returned
        /\ ~hout.raised
        /\ hout.failed =>
               /\ hout.response = Reply(ERROR_RESPONSE)
               /\ hout.image_url = <<>>
               /\ IF hin.from_number \in hdb.users /\ hin.env.handler = "saves"
                  THEN /\ Len(hdb.conversations) = Len(hin.before.conversations) + 1
                       /\ SubSeq(hdb.conversations, 1, Len(hin.before.conversations))
                              = hin.before.conversations
                       /\ IsFailureRow(hdb.conversations[Len(hdb.conversations)])
                  ELSE hdb.conversations = hin.before.conversations

\* a call failed after the sender's record was made, and one failure row was kept
C19_Witness ==
    /\ CallEnded
    /\ hout.failed
    /\ hin.env.fails = "conversation"
    /\ hin.from_number \notin hin.before.users
    /\ Len(hdb.conversations) = Len(hin.before.conversations) + 1

---------------------------------------------------------------------------
(* Claims on the failures of the language model                            *)

\* process_safety_query reached the synthesis and the language model's call failed
LlmFailed ==
    /\ qpc = "done"
    /\ Synthesises(qin.query, Retrieved(qin.conversation_sources, qenv.first, qenv.second),
                   qenv.sources, qin.hints)
    /\ ~qenv.llm.ok

\* C20: when the call of the language model fails, in the direct single call
\* and in the run of the researcher and the formatter alike,
\* process_safety_query does not raise: it returns a result.
C20_LlmFailureIsCaught ==
    LlmFailed => ~qout.raised

---------------------------------------------------------------------------
(* Claims on what a rejected message leaves behind                         *)

\* the message was longer than the limit, or the sender was over the cap, or
\* nothing was left of the message after sanitisation
Rejected ==
    /\ CallEnded
    /\ ~hout.failed
    /\ \/ Len(hin.message_body) > MAX_MESSAGE_LENGTH
       \/ hout.response.kind = "rate_limited"
       \/ Strip(hin.sanitised) = <<>>

\* C21: a message rejected as too long, as empty after sanitisation or as
\* over the rate limit is answered with the corrective text of its case, and
\* the users, the conversations and the safety logs are those before the call.
C21_RejectedWritesNothing ==
    Rejected =>
        /\ hdb = hin.before
        /\ hout.image_url = <<>>
        /\ IF Len(hin.message_body) > MAX_MESSAGE_LENGTH
           THEN hout.response = TooLongText(Len(hin.message_body))
           ELSE IF hout.response.kind = "rate_limited"
           THEN hout.response = RateLimitedText
           ELSE hout.response = Reply(EMPTY_RESPONSE)

\* a sender without a record was turned away at the rate limit
C21_Witness ==
    /\ Rejected
    /\ hout.response.kind = "rate_limited"
    /\ hin.from_number \notin hin.before.users

---------------------------------------------------------------------------
(* Claims on the image generated when the answer names none                *)

\* an image was asked for and the answer that reached line 472 holds no URL
ImageMissing ==
    /\ ppc # "image"
    /\ pin.asked
    /\ extract_image_url(pin.answer) = <<>>

\* safety_image_tool.run raised or answered with its error text
ToolFailed == ~pin.tool.ok \/ pin.tool.text = TOOL_ERROR

\* C22: when the query holds a trigger phrase and no image URL was found in
\* the answer, image generation is called exactly once, with a description
\* that is not empty; when that call raises or answers with a tool-error
\* text, image_url stays empty and the answer goes on unchanged to the hard
\* limit.
C22_FallbackImage ==
    ImageMissing =>
        /\ pin.image_calls = 1
        /\ pin.description # <<>>
        /\ ToolFailed =>
               /\ pin.image_url = <<>>
               /\ ppc = "limit" => ptext = pin.answer

\* the call of the tool raised for a query whose description was shortened,
\* and the answer went on without an image
C22_Witness ==
    /\ ImageMissing
    /\ ppc = "limit"
    /\ ~pin.tool.ok
    /\ pin.image_url = <<>>
    /\ Len(pin.description) < IMAGE_DESCRIPTION_MAX_LENGTH
    /\ SubSeq(pin.description, Len(pin.description) - 2, Len(pin.description)) = <<".", ".", ".">>

---------------------------------------------------------------------------
(* Claims on the searches of process_safety_query                          *)

\* the call goes on with passages
Accepted ==
    /\ qpc = "retrieved"
    /\ qout.passed

\* the collection as the search that was accepted saw it
AcceptedRanking == qenv.ranked[qout.searches]

\* C23: the passages process_safety_query goes on with, from the first
\* search or from the accepted retry, are in the order of non-decreasing
\* distance, are n_results at most, and are the chunks nearest to the query
\* in the index's order but for those whose text is blank.
C23_AcceptedSorted ==
    Accepted =>
        /\ \A i \in 1..(Len(qout.rag_results) - 1) :
               qout.rag_results[i].distance <= qout.rag_results[i + 1].distance
        /\ Len(qout.rag_results) <= qin.n_results
        /\ qout.rag_results =
               SelectSeq(SubSeq(AcceptedRanking, 1,
                                Min({qin.n_results, Len(AcceptedRanking)})),
                         LAMBDA row : row.text # <<" ">>)

\* the retry was accepted with two passages of different distances, a blank
\* chunk between them dropped
C23_Witness ==
    /\ Accepted
    /\ qout.searches = 2
    /\ qin.n_results = RAG_NUM_RESULTS
    /\ Len(AcceptedRanking) = 3
    /\ AcceptedRanking[2].text = <<" ">>
    /\ Len(qout.rag_results) = 2
    /\ qout.rag_results[1].distance < qout.rag_results[2].distance

\* the first search found passages and the nearest of them is beyond the threshold
FirstTooFar ==
    /\ qenv.answers[1] # <<>>
    /\ best_distance(qenv.answers[1]) > RAG_RELEVANCE_DISTANCE_THRESHOLD

\* the second search found a passage within the threshold
RetryNear ==
    /\ qenv.answers[2] # <<>>
    /\ best_distance(qenv.answers[2]) <= RAG_RELEVANCE_DISTANCE_THRESHOLD

\* the call returned early with the canonical message and no sources
ReturnedCanonical ==
    /\ ~qout.passed
    /\ qout.early.answer = NOT_IN_DOCUMENTS_MESSAGE
    /\ qout.early.sources = <<>>

\* C25: process_safety_query searches a second time at most once, and exactly
\* when the first search's best distance is beyond the threshold and there
\* are prior conversation sources; the second search asks for the prior
\* titles joined with blanks, a blank and the query; its passages take the
\* place of the first search's exactly when its best distance is within the
\* threshold, and otherwise the canonical message is returned; without prior
\* sources the canonical message is returned after the first search alone.
C25_RetryOnce ==
    qpc = "retrieved" =>
        /\ Len(qenv.asked) <= 2
        /\ qout.searches = Len(qenv.asked)
        /\ Len(qenv.asked) = 2 <=> (FirstTooFar /\ qin.conversation_sources # <<>>)
        /\ Len(qenv.asked) = 2 =>
               /\ qenv.asked[2] = JoinWith(qin.conversation_sources, <<" ">>)
                                      \o <<" ">> \o qin.query
               /\ IF RetryNear
                  THEN qout.passed /\ qout.rag_results = qenv.answers[2]
                  ELSE ReturnedCanonical
        /\ (FirstTooFar /\ qin.conversation_sources = <<>>) => ReturnedCanonical
        /\ (Len(qenv.asked) = 1 /\ qout.passed) => qout.rag_results = qenv.answers[1]

\* after two prior titles the second search was made with the titles before
\* the query, and its passages took the place of the first search's
C25_Witness ==
    /\ qpc = "retrieved"
    /\ qin.conversation_sources = <<MANUAL, RULES>>
    /\ qenv.asked = <<PLAIN_QUERY, MANUAL \o <<" ">> \o RULES \o <<" ">> \o PLAIN_QUERY>>
    /\ qout.passed
    /\ qout.rag_results = qenv.answers[2]
    /\ qenv.answers[1] # qenv.answers[2]

---------------------------------------------------------------------------
(* Claims on where the hard limit cuts                                     *)

Largest(S) == CHOOSE x \in S : \A y \in S : y <= x

\* where the sentence ends within the first max_len characters end: the
\* blank after a '.', '!' or '?', and every newline
BoundaryEnds(answer, max_len) ==
    {i \in 1..Min({max_len, Len(answer)}) :
        \/ answer[i] = "\n"
        \/ i > 1 /\ answer[i] = " " /\ answer[i - 1] \in {".", "!", "?"}}

\* the cut the specification describes: at the right-most sentence end, else
\* at the last blank, else at max_len - 1 characters
CutAtRightmost(answer, max_len) ==
    IF BoundaryEnds(answer, max_len) # {}
    THEN RStrip(SubSeq(answer, 1, Largest(BoundaryEnds(answer, max_len))))
    ELSE IF RFind(answer, <<" ">>, max_len) # 0
    THEN RStrip(SubSeq(answer, 1, RFind(answer, <<" ">>, max_len)))
    ELSE RStrip(SubSeq(answer, 1, max_len - 1))

\* C24: an answer longer than the maximum is cut at the right-most sentence
\* end within the maximum, the blank after '.', '!' or '?' and the newline
\* counting alike; only without one is it cut at the last blank, and only
\* without a blank at max_len - 1 characters; a '.' closes what does not end
\* in '.', '!' or '?'.
C24_CutsAtRightmostBoundary ==
    (ppc = "attribute" /\ Len(pin.answer) > pin.max_len) =>
        ptext = ClosedWithStop(CutAtRightmost(pin.answer, pin.max_len))

---------------------------------------------------------------------------
(* Claims on the image of a not-in-documents answer                        *)

---------------------------------------------------------------------------
(* Claims on check_rate_limit called by tasks that run side by side        *)

\* C27: however the calls of check_rate_limit of several tasks interleave,
\* no call ends in an exception: the table never changes its size while a
\* task iterates over it and no key is deleted twice, so every call returns
\* that the request passed or the rate-limit text.
C27_NoInternalError ==
    event.op # "raise"

---------------------------------------------------------------------------
(* Claims on a forced re-index that fails                                  *)

\* an add_document(title, force=True) of a title that was indexed, ending
\* in the RuntimeError 'Indexing failed'
ForcedReindexFailed ==
    /\ icall'.force
    /\ icall'.result = "raised"
    /\ is_document_indexed(collection, icall'.title)

\* C28: when add_document(title, force=True) raises 'Indexing failed' for a
\* title that was indexed, the index is what it was before the call: the
\* chunks that were indexed for the title are still there.
C28_FailedReindexKeepsIndex ==
    [][ForcedReindexFailed => collection' = collection]_vars

---------------------------------------------------------------------------
(* Claims on the last chunks of chunk_text                                 *)

\* chunk k ends at a later word than chunk k - 1
ReachesFurther(k) == cspans[k][2] > cspans[k - 1][2]

\* C29: every chunk after the first holds a word that lies past the end of
\* the chunk before it: no chunk is only a tail of the chunk before, at the
\* end of the text either.
C29_EveryChunkAddsAWord ==
    \A k \in 2..Len(chunks) : ReachesFurther(k)

---------------------------------------------------------------------------
(* Claims on get_rag                                                       *)

\* the callers whose call of get_rag has returned
Returned == {c \in Callers : ggot[c] # NoInstance}

\* C30: get_rag constructs SafetyRAG at most once in a process: however the
\* first calls of background tasks and request handlers interleave, every
\* caller is given the same instance and one vector-store client is made.
C30_OneInstance ==
    /\ built <= 1
    /\ \A c \in Returned, d \in Returned : ggot[c] = ggot[d]

====
